---- MODULE Spec2Model ----
(***************************************************************************)
(* Model of the KTS transport record store.                                *)
(*                                                                         *)
(*   app.py                        one shared Document (vehicles, trips,   *)
(*                                 vehicle_expenses, office_expenses) that *)
(*                                 every page mutates and then saves to    *)
(*                                 transport_data.json.                    *)
(*   KTS_Transport/KTS_Transport.py  one JSON file per page; vehicles are  *)
(*                                 keyed by name, expense records are      *)
(*                                 lists filtered by vehicle and window.   *)
(*                                                                         *)
(* Text is a tuple of one-character strings, so that str(), strip(),       *)
(* lower(), float() and the .2f format are computed character by           *)
(* character.  Amounts are integers counting hundredths.  A QDate is the   *)
(* tuple <<y, m, d>>, the null QDate is <<>>; a date string is text.       *)
(***************************************************************************)
EXTENDS Integers, Sequences, FiniteSets, TLC

VARIABLES
    prog,            \* the component that is running
    data,            \* app.py: MainWindow.data, the shared Document
    file,            \* app.py: content of transport_data.json
    page,            \* app.py: current widget of the QStackedWidget
    grid,            \* app.py: cards shown by VehicleDriverWidget
    tripTable,       \* app.py: rows shown by TripWidget
    vexpTable,       \* app.py: rows shown by VehicleExpensesWidget
    crashed,         \* app.py: an exception left a slot (PyQt6 aborts)
    assigned,        \* app.py, history: ids given to new vehicles so far
    vehicles_data,   \* KTS VehicleDriverPage.vehicles_data
    vehicles_file,   \* KTS content of vehicles.json
    kgrid,           \* KTS cards shown by VehicleDriverPage
    records,         \* KTS VehicleExpensesPage.records
    expenses_file,   \* KTS content of expenses_records.json
    filter_vehicle,  \* KTS text of the QLineEdit filter_vehicle
    date_filter,     \* KTS current text of date_filter_combo
    table,           \* KTS rows shown by VehicleExpensesPage
    trip_records,    \* KTS TripPage.records
    trip_file,       \* KTS content of trip_records.json
    trip_table,      \* KTS rows shown by TripPage
    trip_page,       \* KTS TripPage: "off", "up", or "failed" to construct
    csv_file,        \* KTS the lines of the file written by export_to_csv
    records_data,    \* KTS OfficeDetailsPage.records_data
    office_file,     \* KTS content of office_records.json
    totals,          \* KTS texts of the five totals of OfficeDetailsPage
    office_page,     \* KTS OfficeDetailsPage: "off", "up" or "failed"
    month_edits,     \* KTS texts of the line edits of the MonthlyRecordGroups
    faults,          \* disk write failures still to be injected
    last             \* what the last handler did: op, id, save, msg

appVars == <<data, file, page, grid, tripTable, vexpTable, crashed, assigned>>

kvVars == <<vehicles_data, vehicles_file, kgrid>>

keVars == <<records, expenses_file, filter_vehicle, date_filter, table>>

ktVars == <<trip_records, trip_file, trip_table, trip_page, csv_file>>

koVars == <<records_data, office_file, totals, office_page, month_edits>>

vars == <<prog, appVars, kvVars, keVars, ktVars, koVars, faults, last>>

(***************************************************************************)
(* Bounds of the model.                                                    *)
(***************************************************************************)
MaxVehicles == 2
MaxRecords == 1
MaxExpenseRecords == 2
MaxTrips == 3
MaxCsvTrips == 2
MaxTyped == 1
SaveFaults == 1

(***************************************************************************)
(* Text.                                                                   *)
(***************************************************************************)
Digits == {"0", "1", "2", "3", "4", "5", "6", "7", "8", "9"}

DigitChars == <<"0", "1", "2", "3", "4", "5", "6", "7", "8", "9">>

DigitVal(c) == CHOOSE d \in 0..9 : DigitChars[d + 1] = c

UpperLetters == <<"A", "B", "C", "D", "E", "F", "G", "H", "I", "J", "K", "L", "M",
                  "N", "O", "P", "Q", "R", "S", "T", "U", "V", "W", "X", "Y", "Z">>

LowerLetters == <<"a", "b", "c", "d", "e", "f", "g", "h", "i", "j", "k", "l", "m",
                  "n", "o", "p", "q", "r", "s", "t", "u", "v", "w", "x", "y", "z">>

Whitespace == {" "}

\* str(n) for an int n >= 0
RECURSIVE Str(_)
Str(n) == IF n < 10 THEN <<DigitChars[n + 1]>>
          ELSE Str(n \div 10) \o <<DigitChars[(n % 10) + 1]>>

RECURSIVE LStrip(_)
LStrip(t) == IF t # <<>> /\ t[1] \in Whitespace THEN LStrip(Tail(t)) ELSE t

RECURSIVE RStrip(_)
RStrip(t) == IF t # <<>> /\ t[Len(t)] \in Whitespace
             THEN RStrip(SubSeq(t, 1, Len(t) - 1)) ELSE t

\* str.strip()
Strip(t) == RStrip(LStrip(t))

LowerChar(c) == IF \E i \in 1..26 : UpperLetters[i] = c
                THEN LowerLetters[CHOOSE i \in 1..26 : UpperLetters[i] = c]
                ELSE c

\* str.lower()
Lower(t) == [i \in 1..Len(t) |-> LowerChar(t[i])]

RECURSIVE DigitsVal(_)
DigitsVal(s) == IF s = <<>> THEN 0
                ELSE DigitsVal(SubSeq(s, 1, Len(s) - 1)) * 10 + DigitVal(s[Len(s)])

\* float(t) succeeds: optional sign, digits with at most one point, at least
\* one digit, surrounding whitespace ignored.  (Exponents, inf, nan and
\* underscores are outside the alphabet of the model.)
Unsigned(t) == LET s == Strip(t)
               IN  IF s # <<>> /\ s[1] \in {"-", "+"} THEN Tail(s) ELSE s

IsFloat(t) == LET u == Unsigned(t)
              IN  /\ Cardinality({i \in 1..Len(u) : u[i] = "."}) <= 1
                  /\ \A i \in 1..Len(u) : u[i] \in Digits \cup {"."}
                  /\ \E i \in 1..Len(u) : u[i] \in Digits

\* float(t) in hundredths, for a text with at most two decimals
FloatVal(t) ==
    LET s == Strip(t)
        u == Unsigned(t)
        dots == {i \in 1..Len(u) : u[i] = "."}
        p == IF dots = {} THEN Len(u) + 1 ELSE CHOOSE i \in dots : TRUE
        whole == SubSeq(u, 1, p - 1)
        frac == SubSeq(u, p + 1, Len(u))
        frac2 == IF Len(frac) = 0 THEN 0
                 ELSE IF Len(frac) = 1 THEN DigitVal(frac[1]) * 10
                 ELSE DigitVal(frac[1]) * 10 + DigitVal(frac[2])
        mag == DigitsVal(whole) * 100 + frac2
    IN  IF s # <<>> /\ s[1] = "-" THEN 0 - mag ELSE mag

TwoDigits(n) == <<DigitChars[(n \div 10) + 1], DigitChars[(n % 10) + 1]>>

\* f"{v:.2f}" of an amount v in hundredths (x is the value of v, taken once)
Format2f(v) ==
    CHOOSE t \in {LET a == IF x < 0 THEN 0 - x ELSE x
                  IN  (IF x < 0 THEN <<"-">> ELSE <<>>)
                      \o Str(a \div 100) \o <<".">> \o TwoDigits(a % 100) :
                  x \in {v}} : TRUE

\* str(v) of a float v in hundredths: shortest repr, at least one decimal
StrFloat(v) == LET a == IF v < 0 THEN 0 - v ELSE v
                   f == a % 100
               IN  (IF v < 0 THEN <<"-">> ELSE <<>>)
                   \o Str(a \div 100) \o <<".">>
                   \o (IF f % 10 = 0 THEN <<DigitChars[(f \div 10) + 1]>>
                       ELSE TwoDigits(f))

NA == <<"N", "/", "A">>

(***************************************************************************)
(* A Python dict: a sequence of [key, val] entries in insertion order.     *)
(***************************************************************************)
DictKeys(d) == {d[i].key : i \in 1..Len(d)}

DictHas(d, k) == k \in DictKeys(d)

DictGet(d, k) == d[CHOOSE i \in 1..Len(d) : d[i].key = k].val

\* d[k] = v: an existing key keeps its place, a new key goes last
DictSet(d, k, v) ==
    IF DictHas(d, k)
    THEN [i \in 1..Len(d) |-> IF d[i].key = k THEN [key |-> k, val |-> v] ELSE d[i]]
    ELSE Append(d, [key |-> k, val |-> v])

DictDelKeep(e, k) == e.key # k

\* del d[k]
DictDel(d, k) == SelectSeq(d, LAMBDA e : DictDelKeep(e, k))

(***************************************************************************)
(* Calendar dates (QDate).                                                 *)
(***************************************************************************)
IsLeap(y) == (y % 4 = 0 /\ y % 100 # 0) \/ y % 400 = 0

DaysInMonth(y, m) == IF m = 2 THEN (IF IsLeap(y) THEN 29 ELSE 28)
                     ELSE IF m \in {4, 6, 9, 11} THEN 30 ELSE 31

\* the day of the run, QDate.currentDate()
currentDate == <<2024, 3, 31>>

\* the null QDate, and Python's None where a date is expected
NullDate == <<>>

IsValidDate(y, m, d) == m \in 1..12 /\ d >= 1 /\ d <= DaysInMonth(y, m)

FourDigits(n) == <<DigitChars[(n \div 1000) + 1], DigitChars[((n \div 100) % 10) + 1],
                   DigitChars[((n \div 10) % 10) + 1], DigitChars[(n % 10) + 1]>>

\* QDate.toString("yyyy-MM-dd")
DateToString(date) ==
    FourDigits(date[1]) \o <<"-">> \o TwoDigits(date[2]) \o <<"-">> \o TwoDigits(date[3])

\* QDate.fromString(t, "yyyy-MM-dd"): the null date unless t has that shape
\* and names a day of the calendar
fromString(t) ==
    IF /\ Len(t) = 10
       /\ t[5] = "-" /\ t[8] = "-"
       /\ \A i \in {1, 2, 3, 4, 6, 7, 9, 10} : t[i] \in Digits
    THEN LET y == DigitsVal(SubSeq(t, 1, 4))
             m == DigitsVal(SubSeq(t, 6, 7))
             d == DigitsVal(SubSeq(t, 9, 10))
         IN  IF IsValidDate(y, m, d) THEN <<y, m, d>> ELSE NullDate
    ELSE NullDate

\* bool(date): PySide6 takes isNull() for the truth value, None is falsy
Truthy(date) == date # NullDate

ClampDay(y, m, d) == <<y, m, IF d <= DaysInMonth(y, m) THEN d ELSE DaysInMonth(y, m)>>

\* QDate.addMonths(n)
addMonths(date, n) ==
    LET total == date[1] * 12 + (date[2] - 1) + n
    IN  ClampDay(total \div 12, (total % 12) + 1, date[3])

\* QDate.addYears(n)
addYears(date, n) == ClampDay(date[1] + n, date[2], date[3])

\* a <= b on valid dates
DateLE(a, b) ==
    \/ a[1] < b[1]
    \/ a[1] = b[1] /\ a[2] < b[2]
    \/ a[1] = b[1] /\ a[2] = b[2] /\ a[3] <= b[3]

(***************************************************************************)
(* app.py: inputs a user can type or pick.                                 *)
(***************************************************************************)
VehicleForm(name, driver, loan_total, loan_paid) ==
    [name |-> name, driver |-> driver, loan_total |-> loan_total, loan_paid |-> loan_paid]

\* what a user may type into the vehicle dialog
VehicleForms ==
    {VehicleForm(<<"A">>, <<"D">>, <<"2", "0">>, <<"5">>),
     VehicleForm(<<"B">>, <<"D">>, <<"2", "0">>, <<"5">>),
     VehicleForm(<<>>, <<"D">>, <<"2", "0">>, <<"5">>),
     VehicleForm(<<"A">>, <<>>, <<"2", "0">>, <<"5">>),
     VehicleForm(<<"A">>, <<"D">>, <<>>, <<"5">>),
     VehicleForm(<<"B">>, <<"D">>, <<"2", "0">>, <<"x">>)}

TripForm(source, destination, distance) ==
    [source |-> source, destination |-> destination, distance |-> distance]

\* what a user may type into the trip dialog
TripForms ==
    {TripForm(<<"P">>, <<"Q">>, <<"7", ".", "5">>),
     TripForm(<<>>, <<"Q">>, <<"7">>),
     TripForm(<<"P">>, <<>>, <<"7">>),
     TripForm(<<"P">>, <<"Q">>, <<>>),
     TripForm(<<"P">>, <<"Q">>, <<"x">>)}

ExpenseForm(description, amount) == [description |-> description, amount |-> amount]

\* what a user may type into an expense dialog
ExpenseForms ==
    {ExpenseForm(<<"F">>, <<"9">>),
     ExpenseForm(<<>>, <<"9">>),
     ExpenseForm(<<"F">>, <<>>),
     ExpenseForm(<<"F">>, <<"x">>)}

Replies == {"Yes", "No"}

PageIds == {"home", "vehicles", "trips", "vehicle_expenses", "office"}

(***************************************************************************)
(* app.py: persistence.                                                    *)
(***************************************************************************)
initialize_data == [vehicles |-> <<>>, trips |-> <<>>,
                    vehicle_expenses |-> <<>>, office_expenses |-> <<>>]

\* the ways the write of save_data can end
SaveOutcomes == IF faults > 0 THEN {"ok", "unchanged", "corrupt"} ELSE {"ok"}

\* json.dump of a float: a JSON number, written as repr(v)
JsonNumber(v) == [number |-> StrFloat(v)]

\* mutant: numbers are written without their decimals
json_dump_WholeNumbers(doc) ==
    [vehicles |-> doc.vehicles,
     trips |-> [i \in 1..Len(doc.trips) |->
                  [doc.trips[i] EXCEPT !.distance = [number |-> Str(@ \div 100)]]],
     vehicle_expenses |-> [i \in 1..Len(doc.vehicle_expenses) |->
                  [doc.vehicle_expenses[i] EXCEPT !.amount = [number |-> Str(@ \div 100)]]],
     office_expenses |-> [i \in 1..Len(doc.office_expenses) |->
                  [doc.office_expenses[i] EXCEPT !.amount = [number |-> Str(@ \div 100)]]]]

\* json.dump(data, f): the JSON text of a Document.  Strings, lists and
\* objects with string keys are written as they are; the floats (distance,
\* amount) become JSON numbers
json_dump(doc) ==
    [vehicles |-> doc.vehicles,
     trips |-> [i \in 1..Len(doc.trips) |->
                  [doc.trips[i] EXCEPT !.distance = JsonNumber(@)]],
     vehicle_expenses |-> [i \in 1..Len(doc.vehicle_expenses) |->
                  [doc.vehicle_expenses[i] EXCEPT !.amount = JsonNumber(@)]],
     office_expenses |-> [i \in 1..Len(doc.office_expenses) |->
                  [doc.office_expenses[i] EXCEPT !.amount = JsonNumber(@)]]]

\* json.load(f) of the JSON text of a Document: a JSON number with a
\* decimal point is read as a float
json_load(text) ==
    [vehicles |-> text.vehicles,
     trips |-> [i \in 1..Len(text.trips) |->
                  [text.trips[i] EXCEPT !.distance = FloatVal(@.number)]],
     vehicle_expenses |-> [i \in 1..Len(text.vehicle_expenses) |->
                  [text.vehicle_expenses[i] EXCEPT !.amount = FloatVal(@.number)]],
     office_expenses |-> [i \in 1..Len(text.office_expenses) |->
                  [text.office_expenses[i] EXCEPT !.amount = FloatVal(@.number)]]]

\* what transport_data.json can be when the program starts: absent, present
\* but not readable, not JSON, or the JSON list [].  (doc is the content of
\* a file in state "ok" only.)
FileAs(state) == [state |-> state, doc |-> json_dump(initialize_data)]

BootFiles == {FileAs("absent"), FileAs("unreadable"), FileAs("corrupt"), FileAs("list")}

\* mutant: a file that is not JSON raises out of load_data
load_data_NoHandler(f) ==
    IF f.state = "absent"
    THEN [raised |-> FALSE, shape |-> "document", doc |-> initialize_data]
    ELSE IF f.state \in {"unreadable", "corrupt"}
    THEN [raised |-> TRUE, shape |-> "none", doc |-> initialize_data]
    ELSE IF f.state = "list"
    THEN [raised |-> FALSE, shape |-> "list", doc |-> initialize_data]
    ELSE [raised |-> FALSE, shape |-> "document", doc |-> json_load(f.doc)]

\* load_data(): os.path.exists, open, json.load; JSONDecodeError and
\* FileNotFoundError are handled, any other exception of open is not.
\* shape tells a Document from a JSON value that is none (doc is the value
\* returned for shape "document" only)
load_data(f) ==
    IF f.state \in {"absent", "corrupt"}
    THEN [raised |-> FALSE, shape |-> "document", doc |-> initialize_data]
    ELSE IF f.state = "unreadable"
    THEN [raised |-> TRUE, shape |-> "none", doc |-> initialize_data]
    ELSE IF f.state = "list"
    THEN [raised |-> FALSE, shape |-> "list", doc |-> initialize_data]
    ELSE [raised |-> FALSE, shape |-> "document", doc |-> json_load(f.doc)]

\* mutant: save_data writes nothing
save_data_NotWritten(doc, out) == file

\* save_data(doc): the file afterwards
save_data(doc, out) ==
    IF out = "ok" THEN [state |-> "ok", doc |-> json_dump(doc)]
    ELSE IF out = "unchanged" THEN file
    ELSE FileAs("corrupt")

SaveMsg(out) == IF out = "ok" THEN "none" ELSE "Save Error"

FaultsAfter(out) == IF out = "ok" THEN faults ELSE faults - 1

(***************************************************************************)
(* app.py: views.                                                          *)
(***************************************************************************)
\* mutant: an absent id is shown as the id itself
resolveVehicleName_ShowId(vehicles, vehicle_id) ==
    IF DictHas(vehicles, vehicle_id) THEN DictGet(vehicles, vehicle_id).name
    ELSE vehicle_id

\* self.data['vehicles'].get(vehicle_id, {}).get('name', 'N/A')
resolveVehicleName(vehicles, vehicle_id) ==
    IF DictHas(vehicles, vehicle_id) THEN DictGet(vehicles, vehicle_id).name ELSE NA

\* float(loan_total) - float(loan_paid) raises ValueError
CardRaises(e) == ~IsFloat(e.val.loan_total) \/ ~IsFloat(e.val.loan_paid)

loanRemaining(details) == FloatVal(details.loan_total) - FloatVal(details.loan_paid)

create_vehicle_card(e) ==
    [id |-> e.key, name |-> e.val.name, driver |-> e.val.driver_name,
     loan |-> Format2f(loanRemaining(e.val))]

\* refresh_grid: cards are added in dict order until a card raises
refresh_grid(vehicles) ==
    LET bad == {i \in 1..Len(vehicles) : CardRaises(vehicles[i])}
        n == IF bad = {} THEN Len(vehicles)
             ELSE (CHOOSE i \in bad : \A j \in bad : i <= j) - 1
    IN  [cards |-> [i \in 1..n |-> create_vehicle_card(vehicles[i])],
         raised |-> bad # {}]

TripRow(doc, trip) ==
    [date |-> trip.date,
     vehicle |-> resolveVehicleName(doc.vehicles, trip.vehicle_id),
     source |-> trip.source, destination |-> trip.destination,
     distance |-> StrFloat(trip.distance)]

\* TripWidget.refresh_table
refresh_trip_table(doc) == [i \in 1..Len(doc.trips) |-> TripRow(doc, doc.trips[i])]

ExpenseRow(doc, expense) ==
    [date |-> expense.date,
     vehicle |-> resolveVehicleName(doc.vehicles, expense.vehicle_id),
     description |-> expense.description,
     amount |-> StrFloat(expense.amount)]

\* VehicleExpensesWidget.refresh_table
refresh_vexp_table(doc) ==
    [i \in 1..Len(doc.vehicle_expenses) |-> ExpenseRow(doc, doc.vehicle_expenses[i])]

\* the record of a handler run: the operation, the key it worked on, the
\* name text the user typed, how its save ended, the message box it showed
Done5(op, id, arg, save, msg) ==
    [op |-> op, id |-> id, arg |-> arg, save |-> save, msg |-> msg]

Done(op, id, save, msg) == Done5(op, id, <<>>, save, msg)

\* what a cancelled dialog had shown: the warning of a Save that was refused
\* in this dialog (the step before, for the same vehicle), or nothing
CancelMsg(id) ==
    IF last.msg = "Invalid Input" /\ last.id = id THEN "Invalid Input, Cancel"
    ELSE "none"

SaveTag(out) == IF out = "ok" THEN "ok" ELSE "failed"

\* mutant: the combo offers every id that was ever given to a vehicle
ComboChoices_EverAssigned == IF assigned = {} THEN {<<>>} ELSE assigned

\* vehicle_combo.currentData(): an id of the combo, None (<<>>) when it is empty
ComboChoices == IF data.vehicles = <<>> THEN {<<>>} ELSE DictKeys(data.vehicles)

\* records of the Document, all three lists together
RecordCount == Len(data.trips) + Len(data.vehicle_expenses) + Len(data.office_expenses)

GridIds == {grid[i].id : i \in 1..Len(grid)}

(***************************************************************************)
(* app.py: VehicleDriverWidget.                                            *)
(***************************************************************************)
\* mutant: on_save checks the driver name only
VehicleInputInvalid_DriverOnly(name, driver) == driver = <<>>

\* on_save: "if not name or not driver"
VehicleInputInvalid(name, driver) == name = <<>> \/ driver = <<>>

\* mutant: a failed save takes the change back
VehicleOnSave_RollsBack(vehicle_id, name, driver, loan_total, loan_paid, out) ==
    LET op == IF vehicle_id # <<>> THEN "edit_vehicle" ELSE "add_vehicle" IN
    IF VehicleInputInvalid(name, driver)
    THEN /\ last' = Done5(op, vehicle_id, name, "none", "Invalid Input")
         /\ UNCHANGED <<data, file, page, grid, tripTable, vexpTable, crashed, faults, assigned>>
    ELSE LET key == IF vehicle_id # <<>> THEN vehicle_id
                    ELSE Str(Len(data.vehicles) + 1)
             details == IF vehicle_id # <<>>
                        THEN [DictGet(data.vehicles, vehicle_id) EXCEPT
                                 !.name = name, !.driver_name = driver,
                                 !.loan_total = loan_total, !.loan_paid = loan_paid]
                        ELSE [name |-> name, driver_name |-> driver,
                              loan_total |-> loan_total, loan_paid |-> loan_paid]
             doc == IF out = "ok"
                    THEN [data EXCEPT !.vehicles = DictSet(data.vehicles, key, details)]
                    ELSE data
             shown == refresh_grid(doc.vehicles)
         IN  /\ data' = doc
             /\ file' = save_data(doc, out)
             /\ faults' = FaultsAfter(out)
             /\ grid' = shown.cards
             /\ crashed' = shown.raised
             /\ last' = Done5(op, key, name, SaveTag(out), SaveMsg(out))
             /\ assigned' = IF vehicle_id # <<>> THEN assigned ELSE assigned \cup {key}
             /\ UNCHANGED <<page, tripTable, vexpTable>>

\* add_edit_vehicle.on_save; vehicle_id is <<>> (falsy) for "Add New Vehicle"
VehicleOnSave(vehicle_id, name, driver, loan_total, loan_paid, out) ==
    LET op == IF vehicle_id # <<>> THEN "edit_vehicle" ELSE "add_vehicle" IN
    IF VehicleInputInvalid(name, driver)
    THEN /\ last' = Done5(op, vehicle_id, name, "none", "Invalid Input")
         /\ UNCHANGED <<data, file, page, grid, tripTable, vexpTable, crashed, faults, assigned>>
    ELSE LET key == IF vehicle_id # <<>> THEN vehicle_id
                    ELSE Str(Len(data.vehicles) + 1)
             details == IF vehicle_id # <<>>
                        THEN [DictGet(data.vehicles, vehicle_id) EXCEPT
                                 !.name = name, !.driver_name = driver,
                                 !.loan_total = loan_total, !.loan_paid = loan_paid]
                        ELSE [name |-> name, driver_name |-> driver,
                              loan_total |-> loan_total, loan_paid |-> loan_paid]
             doc == [data EXCEPT !.vehicles = DictSet(data.vehicles, key, details)]
             shown == refresh_grid(doc.vehicles)
         IN  /\ data' = doc
             /\ file' = save_data(doc, out)
             /\ faults' = FaultsAfter(out)
             /\ grid' = shown.cards
             /\ crashed' = shown.raised
             /\ last' = Done5(op, key, name, SaveTag(out), SaveMsg(out))
             /\ assigned' = IF vehicle_id # <<>> THEN assigned ELSE assigned \cup {key}
             /\ UNCHANGED <<page, tripTable, vexpTable>>

AddVehicle ==
    /\ prog = "app" /\ UNCHANGED <<prog, kvVars, keVars, ktVars, koVars>>
    /\ ~crashed /\ page = "vehicles"
    /\ Len(data.vehicles) < MaxVehicles
    /\ \E f \in VehicleForms, out \in SaveOutcomes :
          VehicleOnSave(<<>>, f.name, f.driver, f.loan_total, f.loan_paid, out)

\* add_edit_vehicle: Cancel is connected to dlg.reject (vehicle_id is <<>>
\* for the dialog of "Add New Vehicle")
CancelVehicleDialog ==
    /\ prog = "app" /\ UNCHANGED <<prog, kvVars, keVars, ktVars, koVars>>
    /\ ~crashed /\ page = "vehicles"
    /\ \E vehicle_id \in GridIds \cup {<<>>} :
          last' = Done("cancel_vehicle", vehicle_id, "none", CancelMsg(vehicle_id))
    /\ UNCHANGED <<appVars, faults>>

EditVehicle ==
    /\ prog = "app" /\ UNCHANGED <<prog, kvVars, keVars, ktVars, koVars>>
    /\ ~crashed /\ page = "vehicles"
    /\ \E vehicle_id \in GridIds, f \in VehicleForms, out \in SaveOutcomes :
          VehicleOnSave(vehicle_id, f.name, f.driver, f.loan_total, f.loan_paid, out)

CascadeKeep(r, vehicle_id) == r.vehicle_id # vehicle_id

\* mutant: the delete cascades to the trips of the vehicle
delete_vehicle_doc_Cascade(doc, vehicle_id) ==
    [doc EXCEPT !.vehicles = DictDel(doc.vehicles, vehicle_id),
                !.trips = SelectSeq(doc.trips, LAMBDA r : CascadeKeep(r, vehicle_id))]

\* del self.data[self.data_key][vehicle_id]
delete_vehicle_doc(doc, vehicle_id) ==
    [doc EXCEPT !.vehicles = DictDel(doc.vehicles, vehicle_id)]

\* delete_vehicle
delete_vehicle(vehicle_id, reply, out) ==
    IF reply = "Yes" /\ DictHas(data.vehicles, vehicle_id)
    THEN LET doc == delete_vehicle_doc(data, vehicle_id)
             shown == refresh_grid(doc.vehicles)
         IN  /\ data' = doc
             /\ file' = save_data(doc, out)
             /\ faults' = FaultsAfter(out)
             /\ grid' = shown.cards
             /\ crashed' = shown.raised
             /\ last' = Done("delete_vehicle", vehicle_id, SaveTag(out), SaveMsg(out))
             /\ UNCHANGED <<page, tripTable, vexpTable, assigned>>
    ELSE /\ last' = Done("delete_vehicle", vehicle_id, "none", "none")
         /\ UNCHANGED <<data, file, page, grid, tripTable, vexpTable, crashed, faults, assigned>>

DeleteVehicle ==
    /\ prog = "app" /\ UNCHANGED <<prog, kvVars, keVars, ktVars, koVars>>
    /\ ~crashed /\ page = "vehicles"
    /\ \E vehicle_id \in GridIds, reply \in Replies, out \in SaveOutcomes :
          delete_vehicle(vehicle_id, reply, out)

(***************************************************************************)
(* app.py: TripWidget, VehicleExpensesWidget, OfficeExpensesWidget.        *)
(* The Add buttons pass clicked's False as the record, so on_save always   *)
(* takes the branch that appends.                                          *)
(***************************************************************************)
\* TripWidget.add_edit_trip.on_save
TripOnSave(vehicle_id, date, source, destination, distance, out) ==
    IF vehicle_id = <<>> \/ date = <<>> \/ source = <<>> \/ destination = <<>>
       \/ distance = <<>>
    THEN /\ last' = Done("save_trip", vehicle_id, "none", "Invalid Input")
         /\ UNCHANGED <<data, file, page, grid, tripTable, vexpTable, crashed, faults, assigned>>
    ELSE IF ~IsFloat(distance)
    THEN /\ crashed' = TRUE
         /\ last' = Done("save_trip", vehicle_id, "none", "none")
         /\ UNCHANGED <<data, file, page, grid, tripTable, vexpTable, faults, assigned>>
    ELSE LET new_trip == [vehicle_id |-> vehicle_id, date |-> date, source |-> source,
                          destination |-> destination, distance |-> FloatVal(distance)]
             doc == [data EXCEPT !.trips = Append(data.trips, new_trip)]
         IN  /\ data' = doc
             /\ file' = save_data(doc, out)
             /\ faults' = FaultsAfter(out)
             /\ tripTable' = refresh_trip_table(doc)
             /\ last' = Done("save_trip", vehicle_id, SaveTag(out), SaveMsg(out))
             /\ UNCHANGED <<page, grid, vexpTable, crashed, assigned>>

AddTrip ==
    /\ prog = "app" /\ UNCHANGED <<prog, kvVars, keVars, ktVars, koVars>>
    /\ ~crashed /\ page = "trips"
    /\ RecordCount < MaxRecords
    /\ \E vehicle_id \in ComboChoices, f \in TripForms, out \in SaveOutcomes :
          TripOnSave(vehicle_id, DateToString(currentDate), f.source, f.destination, f.distance, out)

\* VehicleExpensesWidget.add_edit_expense.on_save
VehicleExpenseOnSave(date, vehicle_id, description, amount, out) ==
    IF date = <<>> \/ vehicle_id = <<>> \/ description = <<>> \/ amount = <<>>
    THEN /\ last' = Done("save_vehicle_expense", vehicle_id, "none", "Invalid Input")
         /\ UNCHANGED <<data, file, page, grid, tripTable, vexpTable, crashed, faults, assigned>>
    ELSE IF ~IsFloat(amount)
    THEN /\ crashed' = TRUE
         /\ last' = Done("save_vehicle_expense", vehicle_id, "none", "none")
         /\ UNCHANGED <<data, file, page, grid, tripTable, vexpTable, faults, assigned>>
    ELSE LET new_expense == [date |-> date, vehicle_id |-> vehicle_id,
                             description |-> description, amount |-> FloatVal(amount)]
             doc == [data EXCEPT
                        !.vehicle_expenses = Append(data.vehicle_expenses, new_expense)]
         IN  /\ data' = doc
             /\ file' = save_data(doc, out)
             /\ faults' = FaultsAfter(out)
             /\ vexpTable' = refresh_vexp_table(doc)
             /\ last' = Done("save_vehicle_expense", vehicle_id, SaveTag(out), SaveMsg(out))
             /\ UNCHANGED <<page, grid, tripTable, crashed, assigned>>

AddVehicleExpense ==
    /\ prog = "app" /\ UNCHANGED <<prog, kvVars, keVars, ktVars, koVars>>
    /\ ~crashed /\ page = "vehicle_expenses"
    /\ RecordCount < MaxRecords
    /\ \E vehicle_id \in ComboChoices, f \in ExpenseForms, out \in SaveOutcomes :
          VehicleExpenseOnSave(DateToString(currentDate), vehicle_id, f.description, f.amount, out)

\* OfficeExpensesWidget.add_edit_expense.on_save
OfficeExpenseOnSave(date, description, amount, out) ==
    IF date = <<>> \/ description = <<>> \/ amount = <<>>
    THEN /\ last' = Done("save_office_expense", <<>>, "none", "Invalid Input")
         /\ UNCHANGED <<data, file, page, grid, tripTable, vexpTable, crashed, faults, assigned>>
    ELSE IF ~IsFloat(amount)
    THEN /\ crashed' = TRUE
         /\ last' = Done("save_office_expense", <<>>, "none", "none")
         /\ UNCHANGED <<data, file, page, grid, tripTable, vexpTable, faults, assigned>>
    ELSE LET new_expense == [date |-> date, description |-> description,
                             amount |-> FloatVal(amount)]
             doc == [data EXCEPT
                        !.office_expenses = Append(data.office_expenses, new_expense)]
         IN  /\ data' = doc
             /\ file' = save_data(doc, out)
             /\ faults' = FaultsAfter(out)
             /\ last' = Done("save_office_expense", <<>>, SaveTag(out), SaveMsg(out))
             /\ UNCHANGED <<page, grid, tripTable, vexpTable, crashed, assigned>>

AddOfficeExpense ==
    /\ prog = "app" /\ UNCHANGED <<prog, kvVars, keVars, ktVars, koVars>>
    /\ ~crashed /\ page = "office"
    /\ RecordCount < MaxRecords
    /\ \E f \in ExpenseForms, out \in SaveOutcomes :
          OfficeExpenseOnSave(DateToString(currentDate), f.description, f.amount, out)

(***************************************************************************)
(* app.py: MainWindow.                                                     *)
(***************************************************************************)
\* mutant: the page is made current but its view is not refreshed
navigate_to_page_NoRefresh(page_id) ==
    IF page_id \in PageIds
    THEN /\ page' = page_id
         /\ last' = Done("navigate", <<page_id>>, "none", "none")
         /\ UNCHANGED <<data, file, grid, tripTable, vexpTable, crashed, faults, assigned>>
    ELSE /\ last' = Done("navigate", <<page_id>>, "none", "none")
         /\ UNCHANGED <<appVars, faults>>

\* navigate_to_page(page_id): page_map.get(page_id) is None for an id that is
\* not registered, and then nothing happens; else the page is made current
\* and refresh_table or refresh_grid of it is called (the home page has
\* neither).  The id is kept in last.id, as a one-element sequence
navigate_to_page(page_id) ==
    IF page_id \in PageIds
    THEN LET shown == refresh_grid(data.vehicles)
         IN  /\ page' = page_id
             /\ grid' = IF page_id = "vehicles" THEN shown.cards ELSE grid
             /\ crashed' = (page_id = "vehicles" /\ shown.raised)
             /\ tripTable' = IF page_id = "trips" THEN refresh_trip_table(data)
                             ELSE tripTable
             /\ vexpTable' = IF page_id = "vehicle_expenses" THEN refresh_vexp_table(data)
                             ELSE vexpTable
             /\ last' = Done("navigate", <<page_id>>, "none", "none")
             /\ UNCHANGED <<data, file, faults, assigned>>
    ELSE /\ last' = Done("navigate", <<page_id>>, "none", "none")
         /\ UNCHANGED <<appVars, faults>>

NavigateToPage ==
    /\ prog = "app" /\ UNCHANGED <<prog, kvVars, keVars, ktVars, koVars>>
    /\ ~crashed /\ page = "home"
    /\ \E page_id \in PageIds \ {"home"} : navigate_to_page(page_id)

\* the strings the slot navigate_to_page may be called with: the registered
\* ids and one that is not registered
SlotIds == PageIds \cup {"reports"}

\* the slot navigate_to_page called with any string while any page is shown
NavigateAnywhere ==
    /\ prog = "app" /\ UNCHANGED <<prog, kvVars, keVars, ktVars, koVars>>
    /\ ~crashed /\ page # "off"
    /\ \E page_id \in SlotIds : navigate_to_page(page_id)

\* MainWindow.__init__, when the program is started (again): load_data, then
\* the pages are built, each with a first refresh.  An exception ends the
\* start-up; the window is never shown.  (A running program is closed from
\* its home page: from another page, go_home changes the page and no more.)
AppStart ==
    /\ prog = "app" /\ UNCHANGED <<prog, kvVars, keVars, ktVars, koVars>>
    /\ crashed \/ page \in {"off", "home"}
    /\ \E loaded \in {load_data(file)} :
       \E isDoc \in {~loaded.raised /\ loaded.shape = "document"} :
       \E shown \in {refresh_grid(loaded.doc.vehicles)} :
       \E up \in {isDoc /\ ~shown.raised} :
           /\ data' = IF isDoc THEN loaded.doc ELSE initialize_data
           /\ grid' = IF isDoc THEN shown.cards ELSE <<>>
           /\ tripTable' = IF up THEN refresh_trip_table(loaded.doc) ELSE <<>>
           /\ vexpTable' = IF up THEN refresh_vexp_table(loaded.doc) ELSE <<>>
           /\ page' = IF up THEN "home" ELSE "off"
           /\ crashed' = ~up
           /\ last' = Done("start", <<>>, "none", IF up THEN "none" ELSE "exception")
    /\ UNCHANGED <<file, faults, assigned>>

\* go_home, emitted by the Back button of every page but home
GoHome ==
    /\ prog = "app" /\ UNCHANGED <<prog, kvVars, keVars, ktVars, koVars>>
    /\ ~crashed /\ page \notin {"off", "home"}
    /\ page' = "home"
    /\ last' = Done("go_home", <<>>, "none", "none")
    /\ UNCHANGED <<data, file, grid, tripTable, vexpTable, crashed, faults, assigned>>

(***************************************************************************)
(* KTS_Transport.py: persistence.  save_data has no handler: a failed      *)
(* write raises out of the slot, which ends the handler there.             *)
(***************************************************************************)
kts_save_data(old, doc, out) ==
    IF out = "ok" THEN [state |-> "ok", doc |-> doc]
    ELSE IF out = "unchanged" THEN old
    ELSE [state |-> "corrupt", doc |-> <<>>]

KtsMsg(out, shown) == IF out = "ok" THEN shown ELSE "exception"

\* the totals before update_totals has set them
NoTotals == [rent |-> <<>>, bill |-> <<>>, salary |-> <<>>, other |-> <<>>, total |-> <<>>]

KtsFileAs(state) == [state |-> state, doc |-> <<>>]

\* what a JSON file of a page can be when the program starts, besides a
\* JSON object: absent, present but not readable, not JSON, the JSON list []
KtsBadFiles == {KtsFileAs("absent"), KtsFileAs("unreadable"), KtsFileAs("corrupt"),
                KtsFileAs("list")}

\* mutant: load_data forgets what the file holds
kts_load_data_Empty(f) ==
    IF f.state = "unreadable" THEN [raised |-> TRUE, shape |-> "none", doc |-> <<>>]
    ELSE IF f.state = "list" THEN [raised |-> FALSE, shape |-> "list", doc |-> <<>>]
    ELSE [raised |-> FALSE, shape |-> "object", doc |-> <<>>]

\* load_data(filename): FileNotFoundError and JSONDecodeError give {}, any
\* other exception of open is not handled.  The files hold strings, lists
\* and objects only, which json.load gives back as json.dump wrote them.
kts_load_data(f) ==
    IF f.state \in {"absent", "corrupt"}
    THEN [raised |-> FALSE, shape |-> "object", doc |-> <<>>]
    ELSE IF f.state = "unreadable"
    THEN [raised |-> TRUE, shape |-> "none", doc |-> <<>>]
    ELSE IF f.state = "list"
    THEN [raised |-> FALSE, shape |-> "list", doc |-> <<>>]
    ELSE [raised |-> FALSE, shape |-> "object", doc |-> f.doc]

\* d.get(k, default)
DictGetOr(d, k, default) == IF DictHas(d, k) THEN DictGet(d, k) ELSE default

\* {k: v}
DictOf(k, v) == <<[key |-> k, val |-> v]>>

(***************************************************************************)
(* KTS_Transport.py: VehicleDriverPage.  vehicles_data maps a vehicle name *)
(* to a dict of details, a function from the keys that are present.        *)
(***************************************************************************)
EmptyDetails == [k \in {} |-> <<>>]

\* details.get(k, default)
DetailsGet(details, k, default) == IF k \in DOMAIN details THEN details[k] ELSE default

\* details[k] = v for every k of updates
DetailsUpdate(details, updates) ==
    [k \in DOMAIN details \cup DOMAIN updates |->
        IF k \in DOMAIN updates THEN updates[k] ELSE details[k]]

EditForm(driver, contact, loan_total, loan_paid) ==
    [driver |-> driver, contact |-> contact, loan_total |-> loan_total,
     loan_paid |-> loan_paid]

\* what a user may type into VehicleDialog
KtsNameTexts == {<<>>, <<" ">>, <<"A">>, <<"A", " ">>, <<"B">>}

\* what a user may type into VehicleEditDialog
EditForms ==
    {EditForm(<<"D">>, <<"7">>, <<"2", "0">>, <<"5">>),
     EditForm(<<"E">>, <<"7">>, <<"5">>, <<"2", "0">>),
     EditForm(<<"D">>, <<>>, <<>>, <<>>),
     EditForm(<<"D">>, <<"7">>, <<"x">>, <<"5">>),
     EditForm(<<"D">>, <<"7">>, <<"2", "0">>, <<" ">>)}

\* float(text or 0) raises ValueError
FloatOr0Raises(text) == text # <<>> /\ ~IsFloat(text)

\* float(text or 0)
FloatOr0(text) == IF text = <<>> THEN 0 ELSE FloatVal(text)

\* mutant: loan_paid is written from the Total Loan field
save_and_accept_PaidFromTotal(details, f) ==
    LET remaining == FloatOr0(f.loan_total) - FloatOr0(f.loan_paid)
    IN  DetailsUpdate(details,
            [loan_remaining |-> Format2f(remaining),
             driver_name |-> f.driver,
             driver_contact |-> f.contact,
             loan_total |-> f.loan_total,
             loan_paid |-> f.loan_total])

\* VehicleEditDialog.save_and_accept: the details it writes
save_and_accept(details, f) ==
    LET remaining == FloatOr0(f.loan_total) - FloatOr0(f.loan_paid)
    IN  DetailsUpdate(details,
            [loan_remaining |-> Format2f(remaining),
             driver_name |-> f.driver,
             driver_contact |-> f.contact,
             loan_total |-> f.loan_total,
             loan_paid |-> f.loan_paid])

\* VehicleDriverPage.create_vehicle_card
kts_create_vehicle_card(e) ==
    [name |-> e.key,
     driver |-> DetailsGet(e.val, "driver_name", NA),
     loan_remaining |-> DetailsGet(e.val, "loan_remaining", NA)]

\* VehicleDriverPage.refresh_grid
kts_refresh_grid(vd) == [i \in 1..Len(vd) |-> kts_create_vehicle_card(vd[i])]

KGridNames == {kgrid[i].name : i \in 1..Len(kgrid)}

\* mutant: a name that is already there keeps its details
add_vehicle_KeepsDetails(text, accepted, out) ==
    LET new_vehicle_name == Strip(text)
    IN  IF ~accepted
        THEN /\ last' = Done5("kts_cancel", <<>>, text, "none", "none")
             /\ UNCHANGED <<kvVars, faults>>
        ELSE IF new_vehicle_name = <<>>
        THEN /\ last' = Done5("kts_add_vehicle", <<>>, text, "none", "Invalid Name")
             /\ UNCHANGED <<kvVars, faults>>
        ELSE LET vd == IF DictHas(vehicles_data, new_vehicle_name) THEN vehicles_data
                       ELSE DictSet(vehicles_data, new_vehicle_name, EmptyDetails)
             IN  /\ vehicles_data' = vd
                 /\ vehicles_file' = kts_save_data(vehicles_file, vd, out)
                 /\ faults' = FaultsAfter(out)
                 /\ kgrid' = IF out = "ok" THEN kts_refresh_grid(vd) ELSE kgrid
                 /\ last' = Done5("kts_add_vehicle", new_vehicle_name, text,
                                  SaveTag(out), KtsMsg(out, "none"))

\* VehicleDriverPage.add_vehicle
add_vehicle(text, accepted, out) ==
    LET new_vehicle_name == Strip(text)
    IN  IF ~accepted
        THEN /\ last' = Done5("kts_cancel", <<>>, text, "none", "none")
             /\ UNCHANGED <<kvVars, faults>>
        ELSE IF new_vehicle_name = <<>>
        THEN /\ last' = Done5("kts_add_vehicle", <<>>, text, "none", "Invalid Name")
             /\ UNCHANGED <<kvVars, faults>>
        ELSE LET vd == DictSet(vehicles_data, new_vehicle_name, EmptyDetails)
             IN  /\ vehicles_data' = vd
                 /\ vehicles_file' = kts_save_data(vehicles_file, vd, out)
                 /\ faults' = FaultsAfter(out)
                 /\ kgrid' = IF out = "ok" THEN kts_refresh_grid(vd) ELSE kgrid
                 /\ last' = Done5("kts_add_vehicle", new_vehicle_name, text,
                                  SaveTag(out), KtsMsg(out, "none"))

KtsAddVehicle ==
    /\ prog = "kts_vehicles" /\ UNCHANGED <<prog, appVars, keVars, ktVars, koVars>>
    /\ \E text \in KtsNameTexts, accepted \in BOOLEAN, out \in SaveOutcomes :
          /\ DictHas(vehicles_data, Strip(text)) \/ Len(vehicles_data) < MaxVehicles
          /\ add_vehicle(text, accepted, out)

\* mutant: save_and_accept writes the driver name before it parses the loans
edit_vehicle_WritesBeforeCheck(vehicle_name, f, accepted, out) ==
    IF ~accepted
    THEN /\ last' = Done("kts_cancel", vehicle_name, "none", CancelMsg(vehicle_name))
         /\ UNCHANGED <<kvVars, faults>>
    ELSE IF FloatOr0Raises(f.loan_total) \/ FloatOr0Raises(f.loan_paid)
    THEN /\ last' = Done("kts_edit_vehicle", vehicle_name, "none", "Invalid Input")
         /\ vehicles_data' =
               DictSet(vehicles_data, vehicle_name,
                       DetailsUpdate(DictGet(vehicles_data, vehicle_name),
                                     [driver_name |-> f.driver]))
         /\ UNCHANGED <<vehicles_file, kgrid, faults>>
    ELSE LET details == save_and_accept(DictGet(vehicles_data, vehicle_name), f)
             vd == DictSet(vehicles_data, vehicle_name, details)
         IN  /\ vehicles_data' = vd
             /\ vehicles_file' = kts_save_data(vehicles_file, vd, out)
             /\ faults' = FaultsAfter(out)
             /\ kgrid' = IF out = "ok" THEN kts_refresh_grid(vd) ELSE kgrid
             /\ last' = Done("kts_edit_vehicle", vehicle_name, SaveTag(out),
                             KtsMsg(out, "Saved"))

\* VehicleDriverPage.edit_vehicle with VehicleEditDialog.save_and_accept:
\* Save with numbers that do not parse keeps the dialog open, Cancel rejects
edit_vehicle(vehicle_name, f, accepted, out) ==
    IF ~accepted
    THEN /\ last' = Done("kts_cancel", vehicle_name, "none", CancelMsg(vehicle_name))
         /\ UNCHANGED <<kvVars, faults>>
    ELSE IF FloatOr0Raises(f.loan_total) \/ FloatOr0Raises(f.loan_paid)
    THEN /\ last' = Done("kts_edit_vehicle", vehicle_name, "none", "Invalid Input")
         /\ UNCHANGED <<kvVars, faults>>
    ELSE LET details == save_and_accept(DictGet(vehicles_data, vehicle_name), f)
             vd == DictSet(vehicles_data, vehicle_name, details)
         IN  /\ vehicles_data' = vd
             /\ vehicles_file' = kts_save_data(vehicles_file, vd, out)
             /\ faults' = FaultsAfter(out)
             /\ kgrid' = IF out = "ok" THEN kts_refresh_grid(vd) ELSE kgrid
             /\ last' = Done("kts_edit_vehicle", vehicle_name, SaveTag(out),
                             KtsMsg(out, "Saved"))

KtsEditVehicle ==
    /\ prog = "kts_vehicles" /\ UNCHANGED <<prog, appVars, keVars, ktVars, koVars>>
    /\ \E vehicle_name \in KGridNames, f \in EditForms, accepted \in BOOLEAN,
          out \in SaveOutcomes :
          edit_vehicle(vehicle_name, f, accepted, out)

(***************************************************************************)
(* KTS_Transport.py: VehicleExpensesPage.  A record is the list            *)
(* [date, vehicle, expense type, amount] of four strings.                  *)
(***************************************************************************)
ExpRecord(date, vehicle, type, amount) == <<date, vehicle, type, amount>>

DateFilterTypes == {"All", "Last 1 Month", "Last 3 Months", "Last 6 Months",
                    "Last 12 Months"}

\* what a user may type into filter_vehicle
FilterTexts == {<<>>, <<" ">>, <<"t">>, <<" ", "T", " ">>, <<"T", "x">>}

\* date strings a loaded expenses_records.json may hold
LoadedDates ==
    {<<>>,
     DateToString(<<2024, 2, 30>>),
     DateToString(<<2024, 4, 1>>),
     DateToString(<<2024, 3, 31>>),
     DateToString(<<2024, 2, 29>>),
     DateToString(<<2024, 2, 28>>),
     DateToString(<<2023, 12, 30>>),
     DateToString(<<2023, 3, 31>>),
     DateToString(<<2023, 3, 30>>)}

\* records a loaded expenses_records.json may hold
LoadedRecords ==
    {ExpRecord(d, <<"T">>, <<"F">>, <<"9">>) : d \in LoadedDates}
    \cup {ExpRecord(DateToString(currentDate), v, <<"F">>, <<"9">>) :
             v \in {<<"t">>, <<"T", "x">>}}

\* what a user may enter into ExpenseDialog
KtsExpenseInputs ==
    {ExpRecord(DateToString(currentDate), <<"T", " ">>, <<"F">>, <<"9">>),
     ExpRecord(DateToString(<<2024, 2, 29>>), <<"t">>, <<"F">>, <<"x">>)}

RECURSIVE SeqsUpTo(_, _)
SeqsUpTo(S, n) ==
    IF n = 0 THEN {<<>>}
    ELSE SeqsUpTo(S, n - 1) \cup
         {Append(q, x) : q \in {p \in SeqsUpTo(S, n - 1) : Len(p) = n - 1}, x \in S}

\* the window of apply_filters: [date_from, date_to], null for "All"
DateFrom(date_filter_type) ==
    IF date_filter_type = "Last 1 Month" THEN addMonths(currentDate, 0 - 1)
    ELSE IF date_filter_type = "Last 3 Months" THEN addMonths(currentDate, 0 - 3)
    ELSE IF date_filter_type = "Last 6 Months" THEN addMonths(currentDate, 0 - 6)
    ELSE IF date_filter_type = "Last 12 Months" THEN addYears(currentDate, 0 - 1)
    ELSE NullDate

DateTo(date_filter_type) ==
    IF date_filter_type \in {"Last 1 Month", "Last 3 Months", "Last 6 Months",
                             "Last 12 Months"}
    THEN currentDate ELSE NullDate

\* mutant: the test for an empty filter is missing
VehicleMatch_NoEmpty(record, vehicle_filter) ==
    Len(record) > 1 /\ Lower(record[2]) = vehicle_filter

\* mutant: the filter matches as a prefix (startswith)
VehicleMatch_Prefix(record, vehicle_filter) ==
    \/ vehicle_filter = <<>>
    \/ /\ Len(record) > 1
       /\ Len(record[2]) >= Len(vehicle_filter)
       /\ SubSeq(Lower(record[2]), 1, Len(vehicle_filter)) = vehicle_filter

\* vehicle_match of apply_filters
VehicleMatch(record, vehicle_filter) ==
    vehicle_filter = <<>> \/ (Len(record) > 1 /\ Lower(record[2]) = vehicle_filter)

\* record_date of apply_filters
RecordDate(record) == IF record[1] # <<>> THEN fromString(record[1]) ELSE NullDate

\* mutant: the lower end of the window is exclusive
DateMatch_Exclusive(date_from, date_to, record_date) ==
    IF Truthy(date_from) /\ Truthy(record_date)
    THEN DateLE(date_from, record_date) /\ date_from # record_date
         /\ DateLE(record_date, date_to)
    ELSE TRUE

\* date_match of apply_filters
DateMatch(date_from, date_to, record_date) ==
    IF Truthy(date_from) /\ Truthy(record_date)
    THEN DateLE(date_from, record_date) /\ DateLE(record_date, date_to)
    ELSE TRUE

FilterKeeps(record, vehicle_filter, date_from, date_to) ==
    /\ VehicleMatch(record, vehicle_filter)
    /\ DateMatch(date_from, date_to, RecordDate(record))

\* mutant: the kept rows are handed over newest first
apply_filters_Reversed(recs, vehicle_text, date_filter_type) ==
    LET vehicle_filter == Lower(Strip(vehicle_text))
        date_from == DateFrom(date_filter_type)
        date_to == DateTo(date_filter_type)
        kept == SelectSeq(recs, LAMBDA record :
                              FilterKeeps(record, vehicle_filter, date_from, date_to))
    IN  [i \in 1..Len(kept) |-> kept[Len(kept) + 1 - i]]

\* apply_filters: the rows it hands to refresh_table
apply_filters(recs, vehicle_text, date_filter_type) ==
    LET vehicle_filter == Lower(Strip(vehicle_text))
        date_from == DateFrom(date_filter_type)
        date_to == DateTo(date_filter_type)
    IN  SelectSeq(recs, LAMBDA record :
                      FilterKeeps(record, vehicle_filter, date_from, date_to))

\* VehicleExpensesPage.add_expense
add_expense(new_record, accepted, out) ==
    IF ~accepted
    THEN /\ last' = Done("kts_cancel", <<>>, "none", "none")
         /\ UNCHANGED <<keVars, faults>>
    ELSE LET recs == Append(records, new_record)
         IN  /\ records' = recs
             /\ expenses_file' = kts_save_data(expenses_file, DictOf("expenses", recs), out)
             /\ faults' = FaultsAfter(out)
             /\ table' = IF out = "ok" THEN recs ELSE table
             /\ last' = Done("kts_add_expense", <<>>, SaveTag(out), KtsMsg(out, "none"))
             /\ UNCHANGED <<filter_vehicle, date_filter>>

KtsAddExpense ==
    /\ prog = "kts_expenses" /\ UNCHANGED <<prog, appVars, kvVars, ktVars, koVars>>
    /\ Len(records) < MaxExpenseRecords
    /\ \E new_record \in KtsExpenseInputs, accepted \in BOOLEAN, out \in SaveOutcomes :
          add_expense(new_record, accepted, out)

\* the user edits the text of filter_vehicle; no slot is connected to it
KtsTypeFilter ==
    /\ prog = "kts_expenses" /\ UNCHANGED <<prog, appVars, kvVars, ktVars, koVars>>
    /\ \E text \in FilterTexts \ {filter_vehicle} : filter_vehicle' = text
    /\ last' = Done("kts_type_filter", <<>>, "none", "none")
    /\ UNCHANGED <<records, expenses_file, date_filter, table, faults>>

\* the user picks another item of date_filter_combo: currentIndexChanged
\* runs apply_filters
KtsSelectDateFilter ==
    /\ prog = "kts_expenses" /\ UNCHANGED <<prog, appVars, kvVars, ktVars, koVars>>
    /\ \E choice \in DateFilterTypes \ {date_filter} :
          /\ date_filter' = choice
          /\ table' = apply_filters(records, filter_vehicle, choice)
    /\ last' = Done("kts_apply_filters", <<>>, "none", "none")
    /\ UNCHANGED <<records, expenses_file, filter_vehicle, faults>>

\* the Apply Filters button
KtsApplyFilters ==
    /\ prog = "kts_expenses" /\ UNCHANGED <<prog, appVars, kvVars, ktVars, koVars>>
    /\ table' = apply_filters(records, filter_vehicle, date_filter)
    /\ last' = Done("kts_apply_filters", <<>>, "none", "none")
    /\ UNCHANGED <<records, expenses_file, filter_vehicle, date_filter, faults>>

\* reset_filters: clear() and setCurrentIndex(0) (which runs apply_filters
\* when the index changes), then refresh_table() with every record
KtsResetFilters ==
    /\ prog = "kts_expenses" /\ UNCHANGED <<prog, appVars, kvVars, ktVars, koVars>>
    /\ filter_vehicle' = <<>>
    /\ date_filter' = "All"
    /\ table' = records
    /\ last' = Done("kts_reset_filters", <<>>, "none", "none")
    /\ UNCHANGED <<records, expenses_file, faults>>

(***************************************************************************)
(* KTS_Transport.py: TripPage.  A record is the list [date, vehicle no,    *)
(* starting location, destination, distance, {}] of five strings and a     *)
(* placeholder dict.  No field is validated.                               *)
(***************************************************************************)
TripRecord(date, vehicle_no, start_loc, dest_loc, distance) ==
    <<date, vehicle_no, start_loc, dest_loc, distance, <<>>>>

\* what a user may enter into TripDialog
KtsTripInputs ==
    {TripRecord(DateToString(currentDate), <<"T">>, <<"P">>, <<"Q">>, <<"7">>),
     TripRecord(DateToString(currentDate), <<>>, <<"P", ",", "\"">>, <<>>, <<"-", "5">>)}

\* csv.writer, dialect excel with QUOTE_MINIMAL: a field that holds the
\* delimiter or the quote character is quoted, with every quote doubled
CsvNeedsQuotes(field) == \E i \in 1..Len(field) : field[i] \in {",", "\""}

RECURSIVE CsvDoubled(_)
CsvDoubled(field) ==
    IF field = <<>> THEN <<>>
    ELSE (IF field[1] = "\"" THEN <<"\"", "\"">> ELSE <<field[1]>>)
         \o CsvDoubled(Tail(field))

CsvField(field) ==
    IF CsvNeedsQuotes(field) THEN <<"\"">> \o CsvDoubled(field) \o <<"\"">> ELSE field

\* mutant: the writer quotes nothing
RECURSIVE csv_writerow_Unquoted(_)
csv_writerow_Unquoted(fields) ==
    IF Len(fields) = 1 THEN fields[1]
    ELSE fields[1] \o <<",">> \o csv_writerow_Unquoted(Tail(fields))

\* writer.writerow(fields): the line, without its terminator.  (The rows
\* written here have five fields; a line edit holds no line break.)
RECURSIVE csv_writerow(_)
csv_writerow(fields) ==
    IF Len(fields) = 1 THEN CsvField(fields[1])
    ELSE CsvField(fields[1]) \o <<",">> \o csv_writerow(Tail(fields))

\* csv.reader on one line: the parser of the csv module (not strict), from
\* character i on, in the given state, with the field and the row so far
RECURSIVE CsvParse(_, _, _, _, _)
CsvParse(line, i, state, field, row) ==
    IF i > Len(line)
    THEN IF state = "START_RECORD" THEN <<>> ELSE Append(row, field)
    ELSE IF state \in {"START_RECORD", "START_FIELD"}
    THEN IF line[i] = "\"" THEN CsvParse(line, i + 1, "IN_QUOTED_FIELD", <<>>, row)
         ELSE IF line[i] = ","
         THEN CsvParse(line, i + 1, "START_FIELD", <<>>, Append(row, <<>>))
         ELSE CsvParse(line, i + 1, "IN_FIELD", <<line[i]>>, row)
    ELSE IF state = "IN_FIELD"
    THEN IF line[i] = ","
         THEN CsvParse(line, i + 1, "START_FIELD", <<>>, Append(row, field))
         ELSE CsvParse(line, i + 1, "IN_FIELD", Append(field, line[i]), row)
    ELSE IF state = "IN_QUOTED_FIELD"
    THEN IF line[i] = "\"" THEN CsvParse(line, i + 1, "QUOTE_IN_QUOTED_FIELD", field, row)
         ELSE CsvParse(line, i + 1, "IN_QUOTED_FIELD", Append(field, line[i]), row)
    ELSE IF line[i] = "\""
         THEN CsvParse(line, i + 1, "IN_QUOTED_FIELD", Append(field, "\""), row)
         ELSE IF line[i] = ","
         THEN CsvParse(line, i + 1, "START_FIELD", <<>>, Append(row, field))
         ELSE CsvParse(line, i + 1, "IN_FIELD", Append(field, line[i]), row)

\* the row csv.reader gives for a line
csv_reader(line) == CsvParse(line, 1, "START_RECORD", <<>>, <<>>)

\* the header export_to_csv writes
CsvHeader ==
    <<<<"D", "a", "t", "e">>, <<"V", "e", "h", "i", "c", "l", "e", " ", "N", "o">>, <<"S", "t", "a", "r", "t", "i", "n", "g", " ", "L", "o", "c", "a", "t", "i", "o", "n">>,
      <<"D", "e", "s", "t", "i", "n", "a", "t", "i", "o", "n">>, <<"D", "i", "s", "t", "a", "n", "c", "e", " ", "(", "k", "m", ")">>>>

\* the lines of the CSV files a user may pick for the import, besides the
\* exported one: an empty file; a file with the header, a row of five
\* fields, one of four, one of six and another one of five; a file without
\* a header whose last row holds no date and no number
CsvFiles ==
    {<<>>,
     <<csv_writerow(CsvHeader),
       <<"2", "0", "2", "4", "-", "0", "2", "-", "2", "9", ",", "T", ",", "P", ",", "Q", ",", "9">>,
       <<"2", "0", "2", "4", "-", "0", "2", "-", "2", "9", ",", "T", ",", "P", ",", "Q">>,
       <<"2", "0", "2", "4", "-", "0", "2", "-", "2", "9", ",", "T", ",", "P", ",", "Q", ",", "9", ",">>,
       <<"s", "o", "o", "n", ",", ",", "\"", "P", ",", "Q", "\"", ",", "Q", ",", "-", "x">>>>,
     <<<<"2", "0", "2", "4", "-", "0", "2", "-", "2", "8", ",", "T", ",", "P", ",", "Q", ",", "8">>,
       <<"s", "o", "o", "n", ",", ",", "\"", "P", ",", "Q", "\"", ",", "Q", ",", "-", "x">>>>}

\* contents of trip_records.json that are JSON objects
TripDocs ==
    {<<>>,
     DictOf("trips", <<TripRecord(DateToString(<<2024, 2, 28>>), <<"T">>, <<"P">>,
                                  <<"Q">>, <<"7">>)>>)}

TripBootFiles == KtsBadFiles \cup {[state |-> "ok", doc |-> d] : d \in TripDocs}

\* TripPage.refresh_table: every value of record[:-1] as a string
trip_refresh_table(recs) ==
    [i \in 1..Len(recs) |-> SubSeq(recs[i], 1, Len(recs[i]) - 1)]

\* save_data({"trips": self.records}, "trip_records.json"), refresh_table()
TripSavedAt(op, row, recs, out, shown) ==
    /\ trip_records' = recs
    /\ trip_file' = kts_save_data(trip_file, DictOf("trips", recs), out)
    /\ faults' = FaultsAfter(out)
    /\ trip_table' = IF out = "ok" THEN trip_refresh_table(recs) ELSE trip_table
    /\ last' = Done5(op, <<>>, row, SaveTag(out), KtsMsg(out, shown))
    /\ UNCHANGED <<trip_page, csv_file>>

TripSaved(op, recs, out, shown) == TripSavedAt(op, <<>>, recs, out, shown)

\* the trips the model lets the list hold: fewer once a CSV file was written
TripLimit == IF csv_file = <<>> THEN MaxTrips ELSE MaxCsvTrips

TripUntouched(op) ==
    /\ last' = Done(op, <<>>, "none", "none")
    /\ UNCHANGED <<ktVars, faults>>

\* TripPage.__init__: load_data("trip_records.json").get("trips", []),
\* refresh_table()
KtsTripStart ==
    /\ prog = "kts_trips" /\ UNCHANGED <<prog, appVars, kvVars, keVars, koVars>>
    /\ \E loaded \in {kts_load_data(trip_file)} :
       \E up \in {~loaded.raised /\ loaded.shape = "object"} :
       \E recs \in {DictGetOr(loaded.doc, "trips", <<>>)} :
           /\ trip_records' = IF up THEN recs ELSE <<>>
           /\ trip_table' = IF up THEN trip_refresh_table(recs) ELSE <<>>
           /\ trip_page' = IF up THEN "up" ELSE "failed"
           /\ last' = Done("start", <<>>, "none", IF up THEN "none" ELSE "exception")
    /\ UNCHANGED <<trip_file, csv_file, faults>>

\* TripPage.add_trip
KtsAddTrip ==
    /\ prog = "kts_trips" /\ UNCHANGED <<prog, appVars, kvVars, keVars, koVars>>
    /\ trip_page = "up"
    /\ Len(trip_records) < TripLimit
    /\ \E new_record \in KtsTripInputs, accepted \in BOOLEAN, out \in SaveOutcomes :
          IF accepted
          THEN TripSaved("kts_add_trip", Append(trip_records, new_record), out, "none")
          ELSE TripUntouched("kts_cancel")

\* TripPage.edit_trip: the five strings of the record are overwritten in place
KtsEditTrip ==
    /\ prog = "kts_trips" /\ UNCHANGED <<prog, appVars, kvVars, keVars, koVars>>
    /\ trip_page = "up"
    /\ \E i \in 1..Len(trip_table), edited \in KtsTripInputs, accepted \in BOOLEAN,
          out \in SaveOutcomes :
          IF accepted
          THEN TripSavedAt("kts_edit_trip", Str(i),
                           [trip_records EXCEPT
                               ![i] = SubSeq(edited, 1, 5) \o SubSeq(trip_records[i], 6, 6)],
                           out, "none")
          ELSE TripUntouched("kts_cancel")

\* list.remove(record): the first element equal to record goes
ListRemove(recs, record) ==
    LET i == CHOOSE j \in 1..Len(recs) :
                 recs[j] = record /\ \A k \in 1..(j - 1) : recs[k] # record
    IN  SubSeq(recs, 1, i - 1) \o SubSeq(recs, i + 1, Len(recs))

\* TripPage.delete_trip
KtsDeleteTrip ==
    /\ prog = "kts_trips" /\ UNCHANGED <<prog, appVars, kvVars, keVars, koVars>>
    /\ trip_page = "up"
    /\ \E i \in 1..Len(trip_table), reply \in Replies, out \in SaveOutcomes :
          IF reply = "Yes"
          THEN TripSavedAt("kts_delete_trip", Str(i),
                           ListRemove(trip_records, trip_records[i]), out, "none")
          ELSE TripUntouched("kts_delete_trip")

\* TripPage.delete_all
KtsDeleteAll ==
    /\ prog = "kts_trips" /\ UNCHANGED <<prog, appVars, kvVars, keVars, koVars>>
    /\ trip_page = "up"
    /\ \E reply \in Replies, out \in SaveOutcomes :
          IF reply = "Yes"
          THEN TripSaved("kts_delete_all", <<>>, out, "none")
          ELSE TripUntouched("kts_delete_all")

CsvKeep(row) == Len(row) = 5

\* mutant: the import skips two lines
CsvNewRecords_SkipsTwo(lines) ==
    LET rows == [i \in 1..(Len(lines) - 2) |-> csv_reader(lines[i + 2])]
        kept == SelectSeq(rows, CsvKeep)
    IN  [i \in 1..Len(kept) |-> Append(kept[i], <<>>)]

\* the new_records of import_from_csv: next(reader, None) skips the first
\* line, then every row of five fields is taken, with {} appended
CsvNewRecords(lines) ==
    LET rows == [i \in 1..(Len(lines) - 1) |-> csv_reader(lines[i + 1])]
        kept == SelectSeq(rows, CsvKeep)
    IN  [i \in 1..Len(kept) |-> Append(kept[i], <<>>)]

\* TripPage.import_from_csv; picked is FALSE when the file dialog is
\* cancelled.  The message names the number of records imported
KtsImportCsv ==
    /\ prog = "kts_trips" /\ UNCHANGED <<prog, appVars, kvVars, keVars, koVars>>
    /\ trip_page = "up"
    /\ \E lines \in CsvFiles \cup {csv_file}, picked \in BOOLEAN, out \in SaveOutcomes :
       \E new_records \in {CsvNewRecords(lines)} :
       \E recs \in {trip_records \o new_records} :
          /\ Len(recs) <= TripLimit
          /\ IF picked
             THEN /\ trip_records' = recs
                  /\ trip_file' = kts_save_data(trip_file, DictOf("trips", recs), out)
                  /\ faults' = FaultsAfter(out)
                  /\ trip_table' = IF out = "ok" THEN trip_refresh_table(recs)
                                   ELSE trip_table
                  /\ last' = Done5("kts_import_csv", lines, Str(Len(new_records)),
                                   SaveTag(out), KtsMsg(out, "Import Successful"))
                  /\ UNCHANGED <<trip_page, csv_file>>
             ELSE TripUntouched("kts_cancel")

\* the lines export_to_csv writes: the header, then record[:-1] of every
\* record
export_lines(recs) ==
    <<csv_writerow(CsvHeader)>>
    \o [i \in 1..Len(recs) |-> csv_writerow(SubSeq(recs[i], 1, Len(recs[i]) - 1))]

\* TripPage.export_to_csv writes the CSV file the user names and nothing
\* else; picked is FALSE when the file dialog is cancelled
KtsExportCsv ==
    /\ prog = "kts_trips" /\ UNCHANGED <<prog, appVars, kvVars, keVars, koVars>>
    /\ trip_page = "up"
    /\ Len(trip_records) <= MaxCsvTrips
    /\ \E picked \in BOOLEAN :
          IF picked
          THEN /\ csv_file' = export_lines(trip_records)
               /\ last' = Done("kts_export_csv", <<>>, "none", "Export Successful")
               /\ UNCHANGED <<trip_records, trip_file, trip_table, trip_page, faults>>
          ELSE TripUntouched("kts_cancel")

(***************************************************************************)
(* KTS_Transport.py: OfficeDetailsPage.  records_data maps a month key     *)
(* "yyyy-MM" to a dict of the texts rent, bill, salary and other.  The     *)
(* line edits of a MonthlyRecordGroup are never read back, and the data of *)
(* a group is the dict of records_data itself, so the groups always show   *)
(* records_data as of the last refresh_records.                            *)
(***************************************************************************)
\* QDate.toString("yyyy-MM")
MonthString(date) == SubSeq(DateToString(date), 1, 7)

Categories == {"rent", "bill", "salary", "other"}

\* the record of a new month
NewMonthData == [rent |-> <<"0">>, bill |-> <<"0">>, salary |-> <<"0">>, other |-> <<"0">>]

\* contents of office_records.json that are JSON objects
OfficeDocs ==
    {<<>>,
     <<[key |-> MonthString(<<2024, 1, 1>>), val |-> [rent |-> <<"1", "0", "0">>]],
       [key |-> MonthString(<<2024, 2, 1>>),
        val |-> [rent |-> <<"5", "0">>, bill |-> <<"2", "0">>]]>>,
     <<[key |-> MonthString(currentDate),
        val |-> [rent |-> <<"5", "0">>, bill |-> <<>>, salary |-> <<"7", ".", "5">>,
                 other |-> <<"2">>]]>>,
     <<[key |-> MonthString(<<2024, 2, 1>>), val |-> [rent |-> <<"a", "b", "c">>]]>>,
     <<[key |-> MonthString(<<2024, 2, 1>>), val |-> [rent |-> <<"5", "0">>]],
       [key |-> MonthString(currentDate), val |-> [other |-> <<"x">>]]>>}

OfficeBootFiles == KtsBadFiles \cup {[state |-> "ok", doc |-> d] : d \in OfficeDocs}

RECURSIVE SumSeq(_)
SumSeq(q) == IF q = <<>> THEN 0 ELSE q[1] + SumSeq(Tail(q))

\* data.get(k, 0) or 0: the text, or nothing for an absent or empty field
CategoryText(month_data, k) == DetailsGet(month_data, k, <<>>)

\* the sum of float(data.get(k, 0) or 0) over the months
CategoryTotal(rd, k) ==
    SumSeq([i \in 1..Len(rd) |-> FloatOr0(CategoryText(rd[i].val, k))])

\* some float(data.get(k, 0) or 0) of update_totals raises ValueError
TotalsRaise(rd) ==
    \E i \in 1..Len(rd), k \in Categories : FloatOr0Raises(CategoryText(rd[i].val, k))

\* mutant: a text that is no number counts as 0
update_totals_SilentZero(rd) ==
    LET T(k) == SumSeq([i \in 1..Len(rd) |->
                           IF IsFloat(CategoryText(rd[i].val, k))
                           THEN FloatVal(CategoryText(rd[i].val, k)) ELSE 0])
    IN  [raised |-> FALSE,
         totals |-> [rent |-> Format2f(T("rent")), bill |-> Format2f(T("bill")),
                     salary |-> Format2f(T("salary")), other |-> Format2f(T("other")),
                     total |-> Format2f(T("rent") + T("bill") + T("salary") + T("other"))]]

\* mutant: the grand total leaves out the category other
update_totals_NoOther(rd) ==
    IF TotalsRaise(rd) THEN [raised |-> TRUE, totals |-> NoTotals]
    ELSE [raised |-> FALSE,
          totals |-> [rent |-> Format2f(CategoryTotal(rd, "rent")),
                      bill |-> Format2f(CategoryTotal(rd, "bill")),
                      salary |-> Format2f(CategoryTotal(rd, "salary")),
                      other |-> Format2f(CategoryTotal(rd, "other")),
                      total |-> Format2f(CategoryTotal(rd, "rent")
                                         + CategoryTotal(rd, "bill")
                                         + CategoryTotal(rd, "salary"))]]

\* update_totals over the groups of rd: float raises ValueError on a text
\* that is no number, before any total is written; else the five texts
\* (each after the currency sign)
update_totals(rd) ==
    IF TotalsRaise(rd) THEN [raised |-> TRUE, totals |-> NoTotals]
    ELSE [raised |-> FALSE,
          totals |-> [rent |-> Format2f(CategoryTotal(rd, "rent")),
                      bill |-> Format2f(CategoryTotal(rd, "bill")),
                      salary |-> Format2f(CategoryTotal(rd, "salary")),
                      other |-> Format2f(CategoryTotal(rd, "other")),
                      total |-> Format2f(CategoryTotal(rd, "rent")
                                         + CategoryTotal(rd, "bill")
                                         + CategoryTotal(rd, "salary")
                                         + CategoryTotal(rd, "other"))]]

\* MonthlyRecordGroup.__init__ for every month of refresh_records: each line
\* edit starts with data.get(k, '')
group_edits(rd) ==
    [i \in 1..Len(rd) |-> [k \in Categories |-> DetailsGet(rd[i].val, k, <<>>)]]

\* mutant: the data of a group is read from its line edits
group_data_FromEdits(rd, edits) ==
    [i \in 1..Len(rd) |->
        IF i <= Len(edits)
        THEN [key |-> rd[i].key, val |-> DetailsUpdate(rd[i].val, edits[i])]
        ELSE rd[i]]

\* records_data after self.records_data[group.month] = group.data for every
\* group: group.data is the dict the group was constructed with, which is
\* the value of records_data at that month; the line edits are not read
group_data(rd, edits) == rd

\* the line edits whose text is not the text they started with
TypedInto(rd, edits) ==
    {<<i, k>> \in (1..Len(edits)) \X Categories :
        edits[i][k] # DetailsGet(rd[i].val, k, <<>>)}

\* OfficeDetailsPage.__init__: load_data("office_records.json"),
\* refresh_records() with update_totals()
KtsOfficeStart ==
    /\ prog = "kts_office" /\ UNCHANGED <<prog, appVars, kvVars, keVars, ktVars>>
    /\ \E loaded \in {kts_load_data(office_file)} :
       \E isObj \in {~loaded.raised /\ loaded.shape = "object"} :
       \E shown \in {update_totals(loaded.doc)} :
       \E up \in {isObj /\ ~shown.raised} :
           /\ records_data' = IF isObj THEN loaded.doc ELSE <<>>
           /\ totals' = IF up THEN shown.totals ELSE NoTotals
           /\ office_page' = IF up THEN "up" ELSE "failed"
           /\ month_edits' = IF up THEN group_edits(loaded.doc) ELSE <<>>
           /\ last' = Done("start", <<>>, "none", IF up THEN "none" ELSE "exception")
    /\ UNCHANGED <<office_file, faults>>

\* mutant: add_new_month does not look for the month
MonthExists_Never(rd, month_name) == FALSE

\* month_name in self.records_data
MonthExists(rd, month_name) == DictHas(rd, month_name)

\* OfficeDetailsPage.add_new_month
add_new_month(out) ==
    \E month_name \in {MonthString(currentDate)} :
    \E rd \in {DictSet(records_data, month_name, NewMonthData)} :
    \E shown \in {update_totals(rd)} :
        IF ~MonthExists(records_data, month_name)
        THEN /\ records_data' = rd
             /\ office_file' = kts_save_data(office_file, rd, out)
             /\ faults' = FaultsAfter(out)
             /\ totals' = IF out = "ok" /\ ~shown.raised THEN shown.totals ELSE totals
             /\ month_edits' = IF out = "ok" THEN group_edits(rd) ELSE month_edits
             /\ last' = Done("kts_add_month", month_name, SaveTag(out), KtsMsg(out, "none"))
             /\ UNCHANGED office_page
        ELSE /\ last' = Done("kts_add_month", month_name, "none", "Exists")
             /\ UNCHANGED <<koVars, faults>>

KtsAddNewMonth ==
    /\ prog = "kts_office" /\ UNCHANGED <<prog, appVars, kvVars, keVars, ktVars>>
    /\ office_page = "up"
    /\ \E out \in SaveOutcomes : add_new_month(out)

\* OfficeDetailsPage.confirm_save_all: the data of every group is assigned
\* back to its month (the same dict), all is saved and the totals are updated
KtsConfirmSaveAll ==
    /\ prog = "kts_office" /\ UNCHANGED <<prog, appVars, kvVars, keVars, ktVars>>
    /\ office_page = "up"
    /\ \E reply \in Replies, out \in SaveOutcomes :
       \E rd \in {group_data(records_data, month_edits)} :
       \E shown \in {update_totals(rd)} :
          IF reply = "Yes"
          THEN /\ records_data' = rd
               /\ office_file' = kts_save_data(office_file, rd, out)
               /\ faults' = FaultsAfter(out)
               /\ totals' = IF out = "ok" /\ ~shown.raised THEN shown.totals ELSE totals
               /\ last' = Done("kts_save_all", <<>>, SaveTag(out), KtsMsg(out, "Saved"))
               /\ UNCHANGED <<office_page, month_edits>>
          ELSE /\ last' = Done("kts_save_all", <<>>, "none", "none")
               /\ UNCHANGED <<koVars, faults>>

\* what a user may type into a line edit of a month
TypedTexts == {<<"9">>}

\* the user types into the Rent, Bill, Salary or Other field of a month; no
\* signal of the line edits is connected
KtsTypeMonth ==
    /\ prog = "kts_office" /\ UNCHANGED <<prog, appVars, kvVars, keVars, ktVars>>
    /\ office_page = "up"
    /\ \E i \in 1..Len(month_edits), k \in Categories, text \in TypedTexts :
       \E edits \in {[month_edits EXCEPT ![i][k] = text]} :
          /\ Cardinality(TypedInto(records_data, edits)) <= MaxTyped
          /\ month_edits' = edits
          /\ last' = Done5("kts_type_month", records_data[i].key, text, "none", "none")
          /\ UNCHANGED <<records_data, office_file, totals, office_page, faults>>

(***************************************************************************)
(* Start-up.  The two programs, and the pages of KTS_Transport.py, share   *)
(* no state (each KTS page loads and saves a file of its own), so a run    *)
(* is a run of one component; the others rest in their idle state.         *)
(***************************************************************************)
AppOff(f) ==
    /\ data = initialize_data
    /\ file = f
    /\ page = "off"
    /\ grid = <<>>
    /\ tripTable = <<>>
    /\ vexpTable = <<>>
    /\ crashed = FALSE
    /\ assigned = {}

AppIdle == AppOff(FileAs("absent"))

KvIdle ==
    /\ vehicles_data = <<>>
    /\ vehicles_file = KtsFileAs("absent")
    /\ kgrid = <<>>

KtIdle ==
    /\ trip_records = <<>>
    /\ trip_file = KtsFileAs("absent")
    /\ trip_table = <<>>
    /\ trip_page = "off"
    /\ csv_file = <<>>

KoIdle ==
    /\ records_data = <<>>
    /\ office_file = KtsFileAs("absent")
    /\ totals = NoTotals
    /\ office_page = "off"
    /\ month_edits = <<>>

KeIdle ==
    /\ records = <<>>
    /\ expenses_file = KtsFileAs("absent")
    /\ filter_vehicle = <<>>
    /\ date_filter = "All"
    /\ table = <<>>

\* app.py before it is started, with whatever transport_data.json is there
InitApp ==
    /\ prog = "app"
    /\ \E f \in BootFiles : AppOff(f)
    /\ KvIdle /\ KeIdle /\ KtIdle /\ KoIdle
    /\ faults = 0
    /\ last = Done("off", <<>>, "none", "none")

\* KTS VehicleDriverPage.__init__ with no vehicles.json: load_data returns {}
InitKtsVehicles ==
    /\ prog = "kts_vehicles"
    /\ AppIdle /\ KvIdle /\ KeIdle /\ KtIdle /\ KoIdle
    /\ faults = 0
    /\ last = Done("start", <<>>, "none", "none")

\* KTS VehicleExpensesPage.__init__: the "expenses" list of the file, shown
\* unfiltered by refresh_table()
InitKtsExpenses ==
    /\ prog = "kts_expenses"
    /\ AppIdle /\ KvIdle /\ KtIdle /\ KoIdle
    /\ records \in SeqsUpTo(LoadedRecords, MaxExpenseRecords)
    /\ expenses_file = [state |-> "ok", doc |-> DictOf("expenses", records)]
    /\ filter_vehicle = <<>>
    /\ date_filter = "All"
    /\ table = records
    /\ faults = 0
    /\ last = Done("start", <<>>, "none", "none")

\* KTS TripPage before it is constructed, with whatever trip_records.json
\* is there
InitKtsTrips ==
    /\ prog = "kts_trips"
    /\ AppIdle /\ KvIdle /\ KeIdle /\ KoIdle
    /\ trip_records = <<>>
    /\ trip_file \in TripBootFiles
    /\ trip_table = <<>>
    /\ trip_page = "off"
    /\ csv_file = <<>>
    /\ faults = 0
    /\ last = Done("off", <<>>, "none", "none")

\* the operations of TripPage on trip_records.json
NextKtsTripsStored ==
    \/ KtsTripStart
    \/ KtsAddTrip
    \/ KtsEditTrip
    \/ KtsDeleteTrip
    \/ KtsDeleteAll
    \/ KtsImportCsv

NextKtsTrips ==
    \/ NextKtsTripsStored
    \/ KtsExportCsv

\* KTS OfficeDetailsPage before it is constructed, with whatever
\* office_records.json is there
InitKtsOffice ==
    /\ prog = "kts_office"
    /\ AppIdle /\ KvIdle /\ KeIdle /\ KtIdle
    /\ records_data = <<>>
    /\ office_file \in OfficeBootFiles
    /\ totals = NoTotals
    /\ office_page = "off"
    /\ month_edits = <<>>
    /\ faults = 0
    /\ last = Done("off", <<>>, "none", "none")

NextKtsOffice ==
    \/ KtsOfficeStart
    \/ KtsAddNewMonth
    \/ KtsConfirmSaveAll
    \/ KtsTypeMonth

NextApp ==
    \/ AddVehicle
    \/ EditVehicle
    \/ DeleteVehicle
    \/ AddTrip
    \/ AddVehicleExpense
    \/ AddOfficeExpense
    \/ NavigateToPage
    \/ GoHome
    \/ AppStart

NextKtsVehicles ==
    \/ KtsAddVehicle
    \/ KtsEditVehicle

NextKtsExpenses ==
    \/ KtsAddExpense
    \/ KtsTypeFilter
    \/ KtsSelectDateFilter
    \/ KtsApplyFilters
    \/ KtsResetFilters

\* app.py
SpecApp == InitApp /\ [][NextApp]_vars

\* the vehicle pages of both programs
SpecVehicles ==
    (InitApp \/ InitKtsVehicles) /\ [][NextApp \/ NextKtsVehicles]_vars

\* KTS TripPage
SpecKtsTrips == InitKtsTrips /\ [][NextKtsTrips]_vars

\* KTS TripPage without the export
SpecKtsTripsStored == InitKtsTrips /\ [][NextKtsTripsStored]_vars

\* KTS OfficeDetailsPage and TripPage
SpecKtsPages ==
    (InitKtsOffice \/ InitKtsTrips) /\ [][NextKtsOffice \/ NextKtsTripsStored]_vars

\* app.py and the KTS pages whose files are read at start-up
SpecStores ==
    /\ InitApp \/ InitKtsVehicles \/ InitKtsTrips \/ InitKtsOffice
    /\ [][NextApp \/ NextKtsVehicles \/ NextKtsTripsStored \/ NextKtsOffice]_vars

\* both programs, every page
SpecAll ==
    /\ InitApp \/ InitKtsVehicles \/ InitKtsExpenses \/ InitKtsTrips \/ InitKtsOffice
    /\ [][NextApp \/ NextKtsVehicles \/ NextKtsExpenses \/ NextKtsTrips
          \/ NextKtsOffice]_vars

\* both programs, every operation that writes
SpecWrites ==
    /\ InitApp \/ InitKtsVehicles \/ InitKtsExpenses \/ InitKtsTrips \/ InitKtsOffice
    /\ [][NextApp \/ NextKtsVehicles \/ KtsAddExpense \/ NextKtsTripsStored
          \/ NextKtsOffice]_vars

\* KTS VehicleExpensesPage
SpecKtsExpenses == InitKtsExpenses /\ [][NextKtsExpenses]_vars

(***************************************************************************)
(* Properties of app.py's vehicles.                                        *)
(***************************************************************************)
\* the step is an accepted "Add New Vehicle"
AddedVehicle == last'.op = "add_vehicle" /\ last'.save # "none"

\* the step is a confirmed delete_vehicle of a vehicle that exists
DeletedVehicle == last'.op = "delete_vehicle" /\ last'.save # "none"

\* every entry of the dict before is there afterwards, unchanged
EntriesKept(before, after) ==
    \A k \in DictKeys(before) : DictHas(after, k) /\ DictGet(after, k) = DictGet(before, k)

\* C1: every successful addVehicle returns an id that was never assigned
\* before, adds exactly one new entry to the vehicles map and leaves every
\* vehicle that already exists unchanged.
C1_FreshIds ==
    [][AddedVehicle =>
          /\ last'.id \notin assigned
          /\ Len(data'.vehicles) = Len(data.vehicles) + 1
          /\ EntriesKept(data.vehicles, data'.vehicles)]_vars

\* C2: addVehicle with an empty name leaves the vehicle collection unchanged,
\* reports a validation error and triggers no save (app.py: the empty text;
\* KTS_Transport.py: a text that is empty once stripped).
C2_EmptyNameRejected ==
    [][/\ (last'.op = "add_vehicle" /\ last'.arg = <<>>) =>
             /\ data' = data /\ file' = file /\ grid' = grid
             /\ last'.save = "none" /\ last'.msg = "Invalid Input"
       /\ (last'.op = "kts_add_vehicle" /\ Strip(last'.arg) = <<>>) =>
             /\ vehicles_data' = vehicles_data /\ vehicles_file' = vehicles_file
             /\ kgrid' = kgrid
             /\ last'.save = "none" /\ last'.msg = "Invalid Name"]_vars

\* C2 witness: an add with an empty name was rejected while vehicles exist
C2_Witness ==
    /\ last.op = "add_vehicle" /\ last.arg = <<>> /\ last.msg = "Invalid Input"
    /\ data.vehicles # <<>>

\* the name a row must show for a vehicle id
ShownName(vehicle_id) ==
    IF \E i \in 1..Len(data.vehicles) : data.vehicles[i].key = vehicle_id
    THEN (CHOOSE e \in {data.vehicles[i] : i \in 1..Len(data.vehicles)} :
             e.key = vehicle_id).val.name
    ELSE <<"N", "/", "A">>

\* C3: after deleteVehicle(id), resolveVehicleName(id) is "N/A"; the trip and
\* vehicle-expense rows on display show "N/A" for an id that is absent and the
\* stored name for an id that is present.
C3_ResolveName ==
    /\ (last.op = "delete_vehicle" /\ last.save # "none") =>
          resolveVehicleName(data.vehicles, last.id) = <<"N", "/", "A">>
    /\ \A i \in 1..Len(data.vehicles) :
          resolveVehicleName(data.vehicles, data.vehicles[i].key)
             = data.vehicles[i].val.name
    /\ page = "trips" =>
          /\ Len(tripTable) = Len(data.trips)
          /\ \A i \in 1..Len(data.trips) :
                tripTable[i].vehicle = ShownName(data.trips[i].vehicle_id)
    /\ page = "vehicle_expenses" =>
          /\ Len(vexpTable) = Len(data.vehicle_expenses)
          /\ \A i \in 1..Len(data.vehicle_expenses) :
                vexpTable[i].vehicle = ShownName(data.vehicle_expenses[i].vehicle_id)

\* C3 witness: the trips page shows "N/A" for a trip whose vehicle was deleted
\* while another vehicle is shown by name
C3_Witness ==
    /\ page = "trips"
    /\ data.vehicles # <<>>
    /\ \E i \in 1..Len(data.trips) :
          /\ ~DictHas(data.vehicles, data.trips[i].vehicle_id)
          /\ data.trips[i].vehicle_id \in assigned
          /\ tripTable[i].vehicle = <<"N", "/", "A">>

\* C4: deleteVehicle(id) removes only the entry id of the vehicles map: the
\* other vehicles keep their place and content, and trips, vehicle_expenses and
\* office_expenses are unchanged.
C4_DeleteFrame ==
    [][DeletedVehicle =>
          /\ DictHas(data.vehicles, last'.id)
          /\ DictKeys(data'.vehicles) = DictKeys(data.vehicles) \ {last'.id}
          /\ Len(data'.vehicles) = Len(data.vehicles) - 1
          /\ EntriesKept(data'.vehicles, data.vehicles)
          /\ data'.trips = data.trips
          /\ data'.vehicle_expenses = data.vehicle_expenses
          /\ data'.office_expenses = data.office_expenses]_vars

\* C4 witness: a vehicle that a trip refers to was deleted, another remains
C4_Witness ==
    /\ last.op = "delete_vehicle" /\ last.save # "none"
    /\ data.vehicles # <<>>
    /\ \E i \in 1..Len(data.trips) : data.trips[i].vehicle_id = last.id

(***************************************************************************)
(* Properties of the loan remaining.                                       *)
(***************************************************************************)
\* the KTS vehicles page shows, for every vehicle that has a stored total and
\* paid amount, their difference
KtsLoanRemainingShown ==
    prog = "kts_vehicles" =>
        /\ Len(kgrid) = Len(vehicles_data)
        /\ \A i \in 1..Len(vehicles_data) :
              /\ kgrid[i].name = vehicles_data[i].key
              /\ {"loan_total", "loan_paid"} \subseteq DOMAIN vehicles_data[i].val =>
                    kgrid[i].loan_remaining
                        = Format2f(FloatOr0(vehicles_data[i].val["loan_total"])
                                   - FloatOr0(vehicles_data[i].val["loan_paid"]))

\* C5: for every vehicle the loan remaining on display is loan_total -
\* loan_paid of the values stored now, whatever was done before: while app.py
\* shows the vehicles page every stored vehicle has its card and the card
\* shows that difference, and so does the vehicles page of KTS_Transport.py.
C5_LoanRemainingShown ==
    /\ (prog = "app" /\ page = "vehicles") =>
          /\ Len(grid) = Len(data.vehicles)
          /\ \A i \in 1..Len(data.vehicles) :
                /\ grid[i].id = data.vehicles[i].key
                /\ grid[i].loan = Format2f(FloatVal(data.vehicles[i].val.loan_total)
                                           - FloatVal(data.vehicles[i].val.loan_paid))
    /\ KtsLoanRemainingShown

AppVehicleFields == {"name", "driver_name", "loan_total", "loan_paid"}

\* the vehicle dicts in memory and in the saved files
AppVehicleRecords ==
    {data.vehicles[i].val : i \in 1..Len(data.vehicles)}
    \cup {file.doc.vehicles[i].val : i \in 1..Len(file.doc.vehicles)}

KtsVehicleRecords ==
    {vehicles_data[i].val : i \in 1..Len(vehicles_data)}
    \cup {vehicles_file.doc[i].val : i \in 1..Len(vehicles_file.doc)}

Filtered == last.op = "kts_apply_filters"

BoundedWindows == {"Last 1 Month", "Last 3 Months", "Last 6 Months", "Last 12 Months"}

\* today - period for the day of the run, 2024-03-31
ExpectedStart(window) ==
    IF window = "Last 1 Month" THEN <<2024, 2, 29>>
    ELSE IF window = "Last 3 Months" THEN <<2023, 12, 31>>
    ELSE IF window = "Last 6 Months" THEN <<2023, 9, 30>>
    ELSE <<2023, 3, 31>>

ExpectedEnd == <<2024, 3, 31>>

HasDate(record) == fromString(record[1]) # <<>>

InWindow(record, window) ==
    /\ DateLE(ExpectedStart(window), fromString(record[1]))
    /\ DateLE(fromString(record[1]), ExpectedEnd)

\* the record's vehicle equals the text, ignoring letter case
SameIgnoringCase(record, text) == Lower(record[2]) = Lower(text)

\* the vehicle filter as the code applies it: the typed text is trimmed first
PassesVehicle(record, text) == Strip(text) = <<>> \/ SameIgnoringCase(record, Strip(text))

InTable(record) == \E j \in 1..Len(table) : table[j] = record

\* C7: with an empty vehicle filter and the window "All" the filtered rows are
\* all records in their original order.
C7_AllUnfiltered ==
    (Filtered /\ filter_vehicle = <<>> /\ date_filter = "All") => table = records

\* C7 witness: the unfiltered view of two different records, one without a date
C7_Witness ==
    /\ Filtered /\ filter_vehicle = <<>> /\ date_filter = "All"
    /\ Len(records) = 2 /\ records[1] # records[2]
    /\ records[2][1] = <<>>
    /\ table = records

\* C8: for a bounded window the result holds no record dated before
\* today - period or after today, and holds every record dated within
\* [today - period, today] whose vehicle passes the filter.
C8_Window ==
    (Filtered /\ date_filter \in BoundedWindows) =>
        /\ \A j \in 1..Len(table) :
              HasDate(table[j]) => InWindow(table[j], date_filter)
        /\ \A i \in 1..Len(records) :
              (/\ HasDate(records[i])
               /\ InWindow(records[i], date_filter)
               /\ PassesVehicle(records[i], filter_vehicle))
              => InTable(records[i])

\* C8 witness: "Last 1 Month" with a vehicle filter keeps the record dated
\* 2024-02-29 and drops the record dated 2024-02-28
C8_Witness ==
    /\ Filtered /\ date_filter = "Last 1 Month" /\ filter_vehicle = <<"t">>
    /\ Len(records) = 2
    /\ fromString(records[1][1]) = <<2024, 2, 28>>
    /\ fromString(records[2][1]) = <<2024, 2, 29>>
    /\ table = <<records[2]>>

\* C9: a record whose date does not parse (an empty date string included) is
\* left out of every date-bounded window, and is kept under "All" when its
\* vehicle passes the filter.
C9_UnparsableExcluded ==
    /\ (Filtered /\ date_filter \in BoundedWindows) =>
          \A j \in 1..Len(table) : HasDate(table[j])
    /\ (Filtered /\ date_filter = "All") =>
          \A i \in 1..Len(records) :
              (~HasDate(records[i]) /\ PassesVehicle(records[i], filter_vehicle))
              => InTable(records[i])

\* C10 as claimed: a record passes a non-empty filter exactly if its vehicle
\* equals the filter text ignoring letter case; an empty filter passes all.
C10_ExactMatch ==
    (Filtered /\ date_filter = "All") =>
        table = SelectSeq(records, LAMBDA r :
                    filter_vehicle = <<>> \/ SameIgnoringCase(r, filter_vehicle))

\* C10 amended: the filter text is first trimmed of surrounding whitespace; a
\* record passes exactly if its vehicle equals the trimmed text ignoring
\* letter case, and a filter that is empty once trimmed passes every record.
C10_TrimmedExactMatch ==
    Filtered =>
        /\ \A j \in 1..Len(table) : PassesVehicle(table[j], filter_vehicle)
        /\ date_filter = "All" =>
              table = SelectSeq(records, LAMBDA r : PassesVehicle(r, filter_vehicle))

\* C10 witness: the filter " T " keeps the record of vehicle "t" and drops the
\* record of vehicle "Tx"
C10_Witness ==
    /\ Filtered /\ date_filter = "All" /\ filter_vehicle = <<" ", "T", " ">>
    /\ Len(records) = 2
    /\ records[1][2] = <<"T", "x">> /\ records[2][2] = <<"t">>
    /\ table = <<records[2]>>

\* s is a subsequence of t: the elements of s, in their order, are found
\* in t at increasing positions
RECURSIVE IsSubseq(_, _)
IsSubseq(s, t) ==
    IF s = <<>> THEN TRUE
    ELSE IF t = <<>> THEN FALSE
    ELSE IF s[1] = t[1] THEN IsSubseq(Tail(s), Tail(t))
    ELSE IsSubseq(s, Tail(t))

\* C11: whatever the filter and the window, the rows shown by apply_filters
\* or reset_filters are a subsequence of the record list (only its records,
\* none more often than stored, in the stored order), and the step leaves the
\* record list and the file as they were.
C11_StableFilter ==
    [][last'.op \in {"kts_apply_filters", "kts_reset_filters"} =>
          /\ records' = records
          /\ expenses_file' = expenses_file
          /\ IsSubseq(table', records)]_vars

\* C11 witness: a vehicle filter and a bounded window that keep two different
\* records, shown in the stored order
C11_Witness ==
    /\ Filtered /\ date_filter = "Last 3 Months" /\ filter_vehicle = <<"t">>
    /\ Len(records) = 2 /\ records[1] # records[2]
    /\ table = records

(***************************************************************************)
(* Properties of persistence.                                              *)
(***************************************************************************)
\* the same for the files of KTS_Transport.py: the vehicles and the months as
\* they are, the trips under the key "trips"
KtsRoundTrip ==
    /\ prog = "kts_vehicles" =>
          kts_load_data(kts_save_data(vehicles_file, vehicles_data, "ok"))
             = [raised |-> FALSE, shape |-> "object", doc |-> vehicles_data]
    /\ (prog = "kts_office" /\ office_page = "up") =>
          kts_load_data(kts_save_data(office_file, records_data, "ok"))
             = [raised |-> FALSE, shape |-> "object", doc |-> records_data]
    /\ (prog = "kts_trips" /\ trip_page = "up") =>
          /\ ~kts_load_data(kts_save_data(trip_file, DictOf("trips", trip_records),
                                          "ok")).raised
          /\ DictGetOr(kts_load_data(kts_save_data(trip_file,
                                                   DictOf("trips", trip_records),
                                                   "ok")).doc,
                       "trips", <<>>) = trip_records

UniqueKeys(d) == \A i, j \in 1..Len(d) : d[i].key = d[j].key => i = j

\* C13: add_new_month for a month that has its record is rejected with the
\* warning "Exists": the records, that month's data included, and the file
\* stay as they are and nothing is saved; before and after every step there
\* is one record per month key, in memory and in the file.
C13_MonthOnce ==
    [][/\ UniqueKeys(records_data) /\ UniqueKeys(records_data')
       /\ UniqueKeys(office_file.doc) /\ UniqueKeys(office_file'.doc)
       /\ (last'.op = "kts_add_month" /\ DictHas(records_data, last'.id)) =>
             /\ records_data' = records_data
             /\ office_file' = office_file
             /\ totals' = totals
             /\ last'.save = "none"
             /\ last'.msg = "Exists"]_vars

\* C13 witness: the month added by a first call, beside the months loaded, is
\* asked for again and the call is rejected
C13_Witness ==
    /\ last.op = "kts_add_month" /\ last.msg = "Exists"
    /\ Len(records_data) = 3
    /\ office_file = [state |-> "ok", doc |-> records_data]
    /\ DictGet(records_data, last.id)
          = [rent |-> <<"0">>, bill |-> <<"0">>, salary |-> <<"0">>, other |-> <<"0">>]

\* the amount of a category in a month record, in hundredths: 0 for a field
\* that is absent or empty
ExpectedAmount(month_data, k) ==
    IF k \notin DOMAIN month_data \/ month_data[k] = <<>> THEN 0
    ELSE FloatVal(month_data[k])

RECURSIVE ExpectedSum(_, _)
ExpectedSum(rd, k) ==
    IF rd = <<>> THEN 0 ELSE ExpectedAmount(rd[1].val, k) + ExpectedSum(Tail(rd), k)

\* the records {rent: "100"} and {rent: "50", bill: "20"}
ExampleMonths(rd) ==
    /\ Len(rd) = 2
    /\ rd[1].val = [rent |-> <<"1", "0", "0">>]
    /\ rd[2].val = [rent |-> <<"5", "0">>, bill |-> <<"2", "0">>]

\* C14: the totals on display are, per category, the sum over all month
\* records with an absent or empty field taken as 0, and the grand total is the
\* sum of the four; the records {rent: "100"}, {rent: "50", bill: "20"} give
\* 150, 20, 0, 0 and 170.
C14_MonthlyTotals ==
    (prog = "kts_office" /\ office_page = "up") =>
        /\ totals.rent = Format2f(ExpectedSum(records_data, "rent"))
        /\ totals.bill = Format2f(ExpectedSum(records_data, "bill"))
        /\ totals.salary = Format2f(ExpectedSum(records_data, "salary"))
        /\ totals.other = Format2f(ExpectedSum(records_data, "other"))
        /\ totals.total = Format2f(ExpectedSum(records_data, "rent")
                                   + ExpectedSum(records_data, "bill")
                                   + ExpectedSum(records_data, "salary")
                                   + ExpectedSum(records_data, "other"))
        /\ ExampleMonths(records_data) =>
              totals = [rent |-> <<"1", "5", "0", ".", "0", "0">>,
                        bill |-> <<"2", "0", ".", "0", "0">>,
                        salary |-> <<"0", ".", "0", "0">>,
                        other |-> <<"0", ".", "0", "0">>,
                        total |-> <<"1", "7", "0", ".", "0", "0">>]

\* C14 witness: the page shows the totals of the two example records
C14_Witness ==
    /\ prog = "kts_office" /\ office_page = "up"
    /\ ExampleMonths(records_data)
    /\ totals.total = <<"1", "7", "0", ".", "0", "0">>

\* a category field of some month holds a text that is no number
Malformed(rd) ==
    \E i \in 1..Len(rd) : \E k \in DOMAIN rd[i].val \cap {"rent", "bill", "salary", "other"} :
        rd[i].val[k] # <<>> /\ ~IsFloat(rd[i].val[k])

\* some category field is absent or empty
Incomplete(rd) ==
    \E i \in 1..Len(rd) : \E k \in {"rent", "bill", "salary", "other"} :
        k \notin DOMAIN rd[i].val \/ rd[i].val[k] = <<>>

C16_LoadDefaults ==
    /\ (prog = "app" /\ last.op = "start" /\ file.state \in {"absent", "corrupt"}) =>
          /\ ~crashed /\ last.msg = "none"
          /\ DOMAIN data = {"vehicles", "trips", "vehicle_expenses", "office_expenses"}
          /\ data.vehicles = <<>> /\ data.trips = <<>>
          /\ data.vehicle_expenses = <<>> /\ data.office_expenses = <<>>
    /\ (prog = "kts_trips" /\ last.op = "start"
            /\ trip_file.state \in {"absent", "corrupt"}) =>
          /\ trip_page = "up" /\ last.msg = "none"
          /\ trip_records = <<>>
    /\ (prog = "kts_office" /\ last.op = "start"
            /\ office_file.state \in {"absent", "corrupt"}) =>
          /\ office_page = "up" /\ last.msg = "none"
          /\ records_data = <<>>

\* C16 witness: app.py has started from a file that is not JSON
C16_Witness ==
    /\ prog = "app" /\ last.op = "start" /\ file.state = "corrupt"
    /\ page = "home" /\ data = initialize_data

\* what a running component would load from its file is what it holds in
\* memory
Synced ==
    /\ (prog = "app" /\ page # "off" /\ ~crashed) =>
          LET loaded == load_data(file)
          IN  ~loaded.raised /\ loaded.shape = "document" /\ loaded.doc = data
    /\ prog = "kts_vehicles" => kts_load_data(vehicles_file).doc = vehicles_data
    /\ prog = "kts_expenses" =>
          DictGetOr(kts_load_data(expenses_file).doc, "expenses", <<>>) = records
    /\ (prog = "kts_trips" /\ trip_page = "up") =>
          DictGetOr(kts_load_data(trip_file).doc, "trips", <<>>) = trip_records
    /\ (prog = "kts_office" /\ office_page = "up") =>
          kts_load_data(office_file).doc = records_data

\* the operation that ended last wrote the file, and the file holds all the
\* data of the component as they are now
SavedWhole ==
    /\ prog = "app" => file = [state |-> "ok", doc |-> json_dump(data)]
    /\ prog = "kts_vehicles" => vehicles_file = [state |-> "ok", doc |-> vehicles_data]
    /\ prog = "kts_expenses" =>
          expenses_file = [state |-> "ok", doc |-> DictOf("expenses", records)]
    /\ prog = "kts_trips" =>
          trip_file = [state |-> "ok", doc |-> DictOf("trips", trip_records)]
    /\ prog = "kts_office" => office_file = [state |-> "ok", doc |-> records_data]

\* C17: when an operation has ended, the file and the data of the running
\* component agree: what would be loaded from the file is what is in memory,
\* and an operation that saved left the file holding the whole of the data
\* as they are after it.
C17_SavedAfterEveryChange ==
    /\ Synced
    /\ last.save = "ok" => SavedWhole

\* C17 witness: a vehicle has been deleted, with its trips and expenses, and
\* the file holds what is left
C17_Witness ==
    /\ prog = "app" /\ last.op = "delete_vehicle" /\ last.save = "ok"
    /\ file = [state |-> "ok", doc |-> json_dump(data)]
    /\ data.vehicles # <<>>

\* a money text that is empty or parses as a number
MoneyOk(text) == text = <<>> \/ IsFloat(text)

\* C18: every stored monetary field (the loan texts of the vehicles of both
\* programs, the amount of a KTS expense record) is empty or parses as a
\* number, a non-numeric one having been refused.
C18_StoredMoneyParses ==
    /\ \A i \in 1..Len(data.vehicles) :
          /\ MoneyOk(data.vehicles[i].val.loan_total)
          /\ MoneyOk(data.vehicles[i].val.loan_paid)
    /\ \A i \in 1..Len(vehicles_data) :
          /\ MoneyOk(DetailsGet(vehicles_data[i].val, "loan_total", <<>>))
          /\ MoneyOk(DetailsGet(vehicles_data[i].val, "loan_paid", <<>>))
    /\ \A i \in 1..Len(records) : MoneyOk(records[i][4])

\* C19: an add or edit whose input has an empty required field or a number
\* that does not parse changes no record and saves nothing; that is, a step
\* of such an operation that changes the data or writes the file had valid
\* input.  (The vehicle and the KTS expense are stored as typed, so what was
\* typed is read from the stored record.)
C19_RejectedInputNoChange ==
    [][/\ (last'.op \in {"add_vehicle", "edit_vehicle"}
              /\ (data' # data \/ file' # file)) =>
             LET details == DictGet(data'.vehicles, last'.id)
             IN  /\ details.name # <<>> /\ details.driver_name # <<>>
                 /\ MoneyOk(details.loan_total) /\ MoneyOk(details.loan_paid)
       /\ (last'.op = "kts_add_expense"
              /\ (records' # records \/ expenses_file' # expenses_file)) =>
             MoneyOk(records'[Len(records')][4])
       /\ (last'.op = "kts_edit_vehicle"
              /\ (vehicles_data' # vehicles_data \/ vehicles_file' # vehicles_file)) =>
             LET details == DictGet(vehicles_data', last'.id)
             IN  /\ MoneyOk(DetailsGet(details, "loan_total", <<>>))
                 /\ MoneyOk(DetailsGet(details, "loan_paid", <<>>))]_vars

\* C20: whatever the data file is at start-up (absent, unreadable, not
\* JSON, JSON of another shape), start-up completes with the pages built.
C20_AlwaysStarts ==
    /\ (prog = "app" /\ last.op = "start") => ~crashed /\ page = "home"
    /\ (prog = "kts_trips" /\ last.op = "start") => trip_page = "up"
    /\ (prog = "kts_office" /\ last.op = "start" /\ office_file.state # "ok") =>
          office_page = "up"

(***************************************************************************)
(* Properties of the KTS trips and their CSV files.                        *)
(***************************************************************************)
\* the lines after the first whose row has five fields
DataLines(lines) == {j \in 2..Len(lines) : Len(csv_reader(lines[j])) = 5}

\* the k-th smallest number of S
NthOf(S, k) == CHOOSE j \in S : Cardinality({x \in S : x < j}) = k - 1

\* C21: an import skips the first line of the file, appends the rows of
\* exactly five fields (whatever they hold) after the trips there were, in
\* the order of the file and each with an empty details, drops every other
\* row, leaves the trips there were as and where they are, saves, and reports
\* the number of rows it appended.
C21_ImportAppends ==
    [][(last'.op = "kts_import_csv" /\ last'.save = "ok") =>
          LET lines == last'.id
              n == Cardinality(DataLines(lines))
              old == Len(trip_records)
          IN  /\ Len(trip_records') = old + n
              /\ \A i \in 1..old : trip_records'[i] = trip_records[i]
              /\ \A k \in 1..n :
                    trip_records'[old + k]
                        = csv_reader(lines[NthOf(DataLines(lines), k)]) \o << <<>> >>
              /\ last'.arg = Str(n)
              /\ last'.msg = "Import Successful"
              /\ trip_file' = [state |-> "ok", doc |-> DictOf("trips", trip_records')]]_vars

\* C21 witness: after a trip that was added, an import of the file of five
\* lines has taken its second and its fifth line, in that order, the fifth
\* a row without a date and without a number, and reports 2
C21_Witness ==
    /\ last.op = "kts_import_csv" /\ last.save = "ok" /\ last.arg = <<"2">>
    /\ Len(last.id) = 5
    /\ Len(trip_records) = 3
    /\ trip_records[1] \in KtsTripInputs
    /\ trip_records[2][5] = <<"9">>
    /\ trip_records[3][1] = <<"s", "o", "o", "n">>
    /\ trip_records[3][3] = <<"P", ",", "Q">>
    /\ trip_records[3][5] = <<"-", "x">>
    /\ trip_records[3][6] = <<>>


\* the list without its i-th element
WithoutRow(recs, i) == SubSeq(recs, 1, i - 1) \o SubSeq(recs, i + 1, Len(recs))

\* C22: the table shows the trips in the order of the list, and the list is
\* in the order of insertion: an add and an import keep the trips there were
\* as a prefix, an edit of a row changes no other row and no length, a delete
\* of a row leaves the list without exactly that row, and delete-all leaves
\* the list empty in memory and in the saved file.
C22_InsertionOrderShown ==
    [][(prog = "kts_trips" /\ last'.save = "ok") =>
          /\ trip_table' = [i \in 1..Len(trip_records') |-> SubSeq(trip_records'[i], 1, 5)]
          /\ last'.op \in {"kts_add_trip", "kts_import_csv"} =>
                /\ Len(trip_records') >= Len(trip_records)
                /\ SubSeq(trip_records', 1, Len(trip_records)) = trip_records
          /\ last'.op = "kts_add_trip" => Len(trip_records') = Len(trip_records) + 1
          /\ last'.op = "kts_edit_trip" =>
                \E i \in 1..Len(trip_records) :
                   /\ last'.arg = Str(i)
                   /\ Len(trip_records') = Len(trip_records)
                   /\ \A j \in 1..Len(trip_records) :
                         j # i => trip_records'[j] = trip_records[j]
          /\ last'.op = "kts_delete_trip" =>
                \E i \in 1..Len(trip_records) :
                   /\ last'.arg = Str(i)
                   /\ trip_records' = WithoutRow(trip_records, i)
          /\ last'.op = "kts_delete_all" =>
                /\ trip_records' = <<>>
                /\ trip_file' = [state |-> "ok", doc |-> DictOf("trips", <<>>)]]_vars


\* C23: the distance of every stored trip is a number that is not negative:
\* the number app.py stores, and the text KTS stores, which parses as one.
C23_DistanceNonNegative ==
    /\ \A i \in 1..Len(data.trips) : data.trips[i].distance >= 0
    /\ \A i \in 1..Len(trip_records) :
          /\ IsFloat(trip_records[i][5])
          /\ FloatVal(trip_records[i][5]) >= 0


(***************************************************************************)
(* Properties of the vehicle a record of app.py refers to.                 *)
(***************************************************************************)
\* the vehicle_id of every trip and every vehicle expense of the Document
RecordVehicles(doc) ==
    {doc.trips[i].vehicle_id : i \in 1..Len(doc.trips)}
    \cup {doc.vehicle_expenses[i].vehicle_id : i \in 1..Len(doc.vehicle_expenses)}

\* C24: in app.py a trip or vehicle expense is created only with a
\* vehicle_id that is a key of vehicles at that moment (the handler changes
\* no vehicle, so the key is still there when it returns); with no vehicle
\* the add is rejected as a missing field and nothing is saved; every record
\* refers to a vehicle that is there or that was there and has been deleted,
\* so a row shows "N/A" only for a vehicle deleted after the record was made.
C24_RecordsOfKnownVehicles ==
    prog = "app" =>
       /\ (last.op = "save_trip" /\ last.save # "none") =>
             /\ last.id \in DictKeys(data.vehicles)
             /\ data.trips[Len(data.trips)].vehicle_id = last.id
       /\ (last.op = "save_vehicle_expense" /\ last.save # "none") =>
             /\ last.id \in DictKeys(data.vehicles)
             /\ data.vehicle_expenses[Len(data.vehicle_expenses)].vehicle_id = last.id
       /\ (last.op \in {"save_trip", "save_vehicle_expense"} /\ data.vehicles = <<>>) =>
             /\ last.id = <<>>
             /\ last.msg = "Invalid Input"
             /\ last.save = "none"
       /\ RecordVehicles(data) \subseteq DictKeys(data.vehicles) \cup assigned
       /\ page = "trips" =>
             \A i \in 1..Len(tripTable) :
                tripTable[i].vehicle = NA
                   => data.trips[i].vehicle_id \in assigned \ DictKeys(data.vehicles)
       /\ page = "vehicle_expenses" =>
             \A i \in 1..Len(vexpTable) :
                vexpTable[i].vehicle = NA
                   => data.vehicle_expenses[i].vehicle_id
                         \in assigned \ DictKeys(data.vehicles)

\* the trips page shows "N/A" for a trip whose vehicle was deleted
C24_Witness ==
    /\ page = "trips" /\ Len(data.trips) = 1 /\ Len(tripTable) = 1
    /\ tripTable[1].vehicle = NA
    /\ data.trips[1].vehicle_id \in assigned \ DictKeys(data.vehicles)


(***************************************************************************)
(* Properties of the KTS vehicles.                                         *)
(***************************************************************************)
\* KTS VehicleDriverPage
SpecKtsVehicles == InitKtsVehicles /\ [][NextKtsVehicles]_vars

\* C25: the KTS vehicles are keyed by their trimmed name.  An accepted
\* add_vehicle of a name that is there adds no entry: it replaces the details
\* of that vehicle by an empty record and saves; of a new name it adds one
\* entry.  No other step changes the names, and no name is there twice, so
\* there are as many vehicles as distinct trimmed names were added.
C25_KeyedByTrimmedName ==
    [][prog = "kts_vehicles" =>
          /\ (last'.op = "kts_add_vehicle" /\ last'.save # "none") =>
                /\ last'.id = Strip(last'.arg) /\ last'.id # <<>>
                /\ DictKeys(vehicles_data') = DictKeys(vehicles_data) \cup {last'.id}
                /\ DictGet(vehicles_data', last'.id) = EmptyDetails
                /\ \A k \in DictKeys(vehicles_data) \ {last'.id} :
                      DictGet(vehicles_data', k) = DictGet(vehicles_data, k)
                /\ vehicles_file' = [state |-> "ok", doc |-> vehicles_data']
          /\ ~(last'.op = "kts_add_vehicle" /\ last'.save # "none") =>
                DictKeys(vehicles_data') = DictKeys(vehicles_data)
          /\ Cardinality(DictKeys(vehicles_data')) = Len(vehicles_data')]_vars

\* "A " was added when A and B were there, B with its details
C25_Witness ==
    /\ last.op = "kts_add_vehicle" /\ last.arg = <<"A", " ">> /\ last.save = "ok"
    /\ Len(vehicles_data) = 2
    /\ vehicles_data[1] = [key |-> <<"A">>, val |-> EmptyDetails]
    /\ vehicles_data[2].key = <<"B">> /\ vehicles_data[2].val # EmptyDetails


(***************************************************************************)
(* Properties of the KTS office months.                                    *)
(***************************************************************************)
\* C26: once the office page is up, no step changes a value of a month that
\* is there or removes a month; a month that a step adds has rent, bill,
\* salary and other "0"; a confirmed save-all leaves records_data as it is
\* and writes it to the file; and the displayed totals never change, so they
\* stay the totals of the data loaded at start-up.
C26_MonthsNeverEdited ==
    [][(prog = "kts_office" /\ office_page = "up") =>
          /\ \A i \in 1..Len(records_data) :
                /\ i <= Len(records_data')
                /\ records_data'[i] = records_data[i]
          /\ \A i \in (Len(records_data) + 1)..Len(records_data') :
                /\ DOMAIN records_data'[i].val = Categories
                /\ \A k \in Categories : records_data'[i].val[k] = <<"0">>
          /\ totals' = totals
          /\ last'.op = "kts_save_all" =>
                /\ records_data' = records_data
                /\ last'.save = "ok" =>
                      office_file' = [state |-> "ok", doc |-> records_data]]_vars

\* this month was added to two loaded months and all was saved again: the
\* totals are those of the two loaded months
C26_Witness ==
    /\ last.op = "kts_save_all" /\ last.save = "ok"
    /\ Len(records_data) = 3
    /\ records_data[3] = [key |-> MonthString(currentDate),
                          val |-> [rent |-> <<"0">>, bill |-> <<"0">>,
                                   salary |-> <<"0">>, other |-> <<"0">>]]
    /\ totals.rent = <<"1", "5", "0", ".", "0", "0">>
    /\ totals.total = <<"1", "7", "0", ".", "0", "0">>
    /\ office_file = [state |-> "ok", doc |-> records_data]
    /\ month_edits[3].rent = <<"9">>


(***************************************************************************)
(* Properties of app.py when a write of the file fails.                    *)
(***************************************************************************)
\* app.py on a disk where SaveFaults writes of the file will fail
InitAppFaulty ==
    /\ prog = "app"
    /\ \E f \in BootFiles : AppOff(f)
    /\ KvIdle /\ KeIdle /\ KtIdle /\ KoIdle
    /\ faults = SaveFaults
    /\ last = Done("off", <<>>, "none", "none")

\* the operations of the vehicles page, with the navigation and the restart
NextAppVehicles ==
    \/ AddVehicle
    \/ EditVehicle
    \/ DeleteVehicle
    \/ NavigateToPage
    \/ GoHome
    \/ AppStart

SpecAppFaulty == InitAppFaulty /\ [][NextAppVehicles]_vars

\* the file holds the Document as it is in memory
FileIsData == file = [state |-> "ok", doc |-> json_dump(data)]

\* C27 as stated: after a failed save the file and the Document differ.
C27_FailedSaveDiffers ==
    (prog = "app" /\ last.save = "failed") => ~FileIsData

\* C27, amended: a failed save of app.py is only shown as "Save Error".  The
\* mutation stays in memory and the handler goes on (the view is refreshed
\* from the changed Document); the file is as it was or is damaged, so it
\* differs from the Document when it held the Document before and the
\* operation changed the Document.  Every successful save leaves the file
\* equal to the whole Document.
C27_FailedSaveKeepsMutation ==
    [][prog = "app" =>
          /\ last'.save = "failed" =>
                /\ last'.msg = "Save Error"
                /\ file' \in {file, FileAs("corrupt")}
                /\ last'.op \in {"add_vehicle", "edit_vehicle"} =>
                      /\ DictHas(data'.vehicles, last'.id)
                      /\ DictGet(data'.vehicles, last'.id).name = last'.arg
                      /\ data'.vehicles
                            = DictSet(data.vehicles, last'.id,
                                      DictGet(data'.vehicles, last'.id))
                /\ last'.op = "delete_vehicle" =>
                      /\ DictHas(data.vehicles, last'.id)
                      /\ data'.vehicles = DictDel(data.vehicles, last'.id)
                /\ grid' = refresh_grid(data'.vehicles).cards
                /\ (FileIsData /\ data' # data) => ~FileIsData'
          /\ last'.save = "ok" => FileIsData']_vars

\* a second vehicle was added and its save failed: the file still holds the
\* first vehicle alone
C27_Witness ==
    /\ last.op = "add_vehicle" /\ last.save = "failed" /\ last.msg = "Save Error"
    /\ Len(data.vehicles) = 2 /\ Len(grid) = 2
    /\ file.state = "ok" /\ Len(file.doc.vehicles) = 1


(***************************************************************************)
(* Properties of Cancel and No.                                            *)
(***************************************************************************)
\* the vehicles page of app.py with the Cancel of its dialog, and the KTS
\* pages that have a dialog or a confirmation
SpecDialogs ==
    /\ InitApp \/ InitKtsVehicles \/ InitKtsTrips \/ InitKtsOffice
    /\ [][NextAppVehicles \/ CancelVehicleDialog \/ NextKtsVehicles
          \/ NextKtsTripsStored \/ NextKtsOffice]_vars

\* the step is a Cancel of a dialog or a No to a confirmation
Declined ==
    \/ last'.op \in {"cancel_vehicle", "kts_cancel"}
    \/ /\ last'.op \in {"delete_vehicle", "kts_delete_trip", "kts_delete_all",
                        "kts_save_all"}
       /\ last'.save = "none"

\* the step is a Save that the dialog refused
Refused == last'.save = "none" /\ last'.msg \in {"Invalid Input", "Invalid Name"}

\* C28: a Cancel of an add or edit dialog, a No to a confirmation (delete
\* vehicle, delete trip, delete all trips, save all records), and a Save
\* that the dialog refused leave the data in memory, the saved file and
\* what is shown exactly as they were; so does a Cancel after a refused Save.
C28_DeclinedChangesNothing ==
    [][(Declined \/ Refused) =>
          UNCHANGED <<data, file, grid, vehicles_data, vehicles_file, kgrid,
                      trip_records, trip_file, trip_table, records_data,
                      office_file, totals>>]_vars

\* the edit dialog of a KTS vehicle was cancelled after its Save had been
\* refused
C28_Witness ==
    /\ prog = "kts_vehicles"
    /\ last.op = "kts_cancel" /\ last.msg = "Invalid Input, Cancel"
    /\ Len(vehicles_data) = 2
    /\ vehicles_data[1].val # EmptyDetails
    /\ vehicles_file = [state |-> "ok", doc |-> vehicles_data]


(***************************************************************************)
(* Properties of the CSV round trip of the KTS trips.                      *)
(***************************************************************************)
\* the trips with their five shown fields and an empty details
DetailsReset(recs) == [i \in 1..Len(recs) |-> SubSeq(recs[i], 1, 5) \o << <<>> >>]

\* C29: what export_to_csv writes for the trips there are is read back by
\* import_from_csv as the same trips, as many and in the same order, with
\* the same five fields and an empty details: so export, delete all, import
\* is a round trip.  An import of the exported file appends one such copy
\* after the trips there are, so n imports append n copies.
C29_CsvRoundTrip ==
    prog = "kts_trips" =>
       /\ Len(export_lines(trip_records)) = Len(trip_records) + 1
       /\ CsvNewRecords(export_lines(trip_records)) = DetailsReset(trip_records)
       /\ (last.op = "kts_import_csv" /\ last.save = "ok" /\ csv_file # <<>>
             /\ last.id = csv_file) =>
             LET n == Len(csv_file) - 1
                 copy == SubSeq(trip_records, Len(trip_records) - n + 1,
                                Len(trip_records))
             IN  /\ last.arg = Str(n)
                 /\ Len(trip_records) >= n
                 /\ export_lines(copy) = csv_file
                 /\ \A i \in 1..n : copy[i][6] = <<>>

\* one trip, with a comma and a quote in a field and an empty field, was
\* exported and deleted, and the file was imported twice
C29_Witness ==
    /\ last.op = "kts_import_csv" /\ last.id = csv_file /\ Len(csv_file) = 2
    /\ Len(trip_records) = 2 /\ trip_records[1] = trip_records[2]
    /\ trip_records[1][3] = <<"P", ",", "\"">>
    /\ trip_records[1][2] = <<>>
    /\ trip_file = [state |-> "ok", doc |-> DictOf("trips", trip_records)]


(***************************************************************************)
(* Properties of the navigation of app.py.                                 *)
(***************************************************************************)
\* app.py with its vehicles and trips, the slot navigate_to_page taking any
\* string
NextNavigation ==
    \/ AddVehicle
    \/ DeleteVehicle
    \/ AddTrip
    \/ NavigateToPage
    \/ NavigateAnywhere
    \/ GoHome
    \/ AppStart

SpecNavigation == InitApp /\ [][NextNavigation]_vars

\* C30: while app.py runs the current page is one of the five registered
\* pages, and Home after the start; navigate_to_page with an id that is not
\* registered leaves the page (and everything else) unchanged; with a
\* registered id it makes that page current and its view is rebuilt from the
\* Document; go_home makes Home current; from every page Home can be reached
\* by one step, and from Home every other page.
C30_Navigation ==
    /\ [](prog = "app" =>
            /\ page # "off" => page \in PageIds
            /\ (last.op = "start" /\ page # "off") => page = "home"
            /\ last.op = "go_home" => page = "home"
            /\ (page \in PageIds \ {"home"} /\ ~crashed) =>
                  ENABLED (page' = "home" /\ GoHome)
            /\ (page = "home" /\ ~crashed) =>
                  \A p \in PageIds \ {"home"} : ENABLED (page' = p /\ NavigateToPage))
    /\ [][prog = "app" =>
            /\ (last'.op = "navigate" /\ last'.id[1] \notin PageIds) =>
                  UNCHANGED appVars
            /\ (last'.op = "navigate" /\ last'.id[1] \in PageIds) =>
                  /\ page' = last'.id[1]
                  /\ ~crashed'
                  /\ data' = data
                  /\ page' = "vehicles" => grid' = refresh_grid(data.vehicles).cards
                  /\ page' = "trips" =>
                        tripTable' = [i \in 1..Len(data.trips) |->
                                         TripRow(data, data.trips[i])]]_vars

C30_Witness ==
    /\ last.op = "navigate" /\ last.id = <<"trips">> /\ page = "trips"
    /\ Len(data.trips) = 1 /\ data.vehicles = <<>>
    /\ tripTable[1].vehicle = NA

====
